---- MODULE Spec2Model ----
(***************************************************************************)
(* A model of the event-discovery and vote-submission pipeline of the      *)
(* avn-parachain external service                                          *)
(* (client/external-service/src/ethereum_events_handler.rs).               *)
(*                                                                         *)
(* DiscoverySpec : identify_events as a function of what the external      *)
(*                 chain answers to the primary and the secondary query.   *)
(* Spec          : start_eth_event_handler: author resolution, then the    *)
(*                 cycles of query_runtime_and_process over the instances, *)
(*                 with client acquisition, finality gate and voting.      *)
(* FairSpec      : Spec with the sleeps of the two loops coming to an end. *)
(* PoolSpec      : get_evm_client_for_instance called again and again.     *)
(* ParseSpec     : parse_log applied to one log.                           *)
(* VotingSpec    : link_account and unlink_account of the                  *)
(*                 cross-chain-voting pallet, in any order.                *)
(* BalanceSpec   : get_total_linked_balance of that pallet, between links, *)
(*                 unlinks and changes of the accounts' free balances.     *)
(* StakeSpec     : add_stake and remove_stake of the node-manager pallet   *)
(*                 on one node, while the time passes.                     *)
(* RevoteSpec    : the cycles of the handler over one instance whose       *)
(*                 active range stays the same, the votes handed counted.  *)
(* AdditionalSpec: identify_additional_events on up to two transactions,   *)
(*                 awaited under two completion orders of its futures.     *)
(* AuthorSpec    : find_current_node_author applied to an author set and   *)
(*                 a keystore.                                             *)
(***************************************************************************)
EXTENDS Integers, Sequences, FiniteSets, TLC

VARIABLES
    \* ---- DiscoverySpec: one identify_events call
    event_signatures_to_find,  \* the caller's set of signatures
    primary_response,          \* the chain's answer to the primary get_logs
    secondary_response,        \* the chain's answer to the secondary get_logs
    discovery_result,          \* NotCalled, or what identify_events returned
    discovery_queries,         \* the get_logs filters the call sent, in order
    \* ---- Spec: start_eth_event_handler
    pc,                   \* where the handler task is
    current_node_author,  \* None until resolved, then Some(author)
    eth_node_urls,        \* config.eth_node_urls
    evm_clients,          \* config.evm_clients: chain id -> client
    cycle_instances,      \* the instances the host chain reported this cycle
    remaining,            \* the instances the for loop has not reached yet
    visited,              \* the instances the for loop has reached this cycle
    instance_id,          \* the instance of the current iteration (0: none)
    active_range,         \* query_active_block_range's answer for it
    evm,                  \* the client acquired for it
    attempts,             \* get_evm_client_for_instance: attempts
    retry_sleeps,         \* the sleeps of the current acquisition, in seconds
    acquisition,          \* the current acquisition: its chain id, cache hit, result
    last_scan,            \* what the last initialise_evm did, url by url
    trace,                \* the calls made for the current instance, in order
    cycle_result,         \* what query_runtime_and_process returned
    slept,                \* the last sleep of the handler's loops, in seconds (0: none)
    \* ---- ParseSpec: one parse_log call
    parsed_log,           \* the log given to parse_log
    parse_result,         \* NotCalled, or what parse_log returned
    \* ---- VotingSpec: the cross-chain-voting pallet
    LinkedAccounts,           \* storage: T1 identity -> list of T2 accounts
    LinkedAccountToIdentity,  \* storage: T2 account -> Option of T1 identity
    last_call,                \* None, or the last extrinsic: its arguments, result, events
    free_balance,             \* Currency: T2 account -> its free balance
    \* ---- StakeSpec: the node-manager pallet, one node and its owner
    now_sec,                  \* TimeProvider::now().as_secs()
    node_info,                \* storage: NodeRegistry[node_id]
    owner_balance,            \* Currency: the owner's free and reserved balance
    last_stake_call,          \* None, or the last extrinsic: its argument and result
    \* ---- RevoteSpec: the cycles over one instance and one active range
    votes_handed,             \* submit_vote calls the host chain has accepted so far
    \* ---- AdditionalSpec: one identify_additional_events call
    transactions_to_check,    \* the transaction ids given to the call
    additional_call,          \* None, or the call: signatures, results, calls made
    \* ---- AuthorSpec: one find_current_node_author call
    authors_answer,           \* the answer of the host chain's author query
    keystore_keys,            \* the keys of the local keystore
    author_search,            \* None, or Some(what the call returned)
    \* ---- FilterSpec: a FilteredPool over an inner transaction pool
    pool_filter,              \* ExtrinsicFilter::check: extrinsic -> FilterResult
    inner_pool,               \* the inner pool: extrinsic -> its result for it
    pool_call,                \* None, or the last submission: what it handed on, its result
    \* ---- BurnSpec: the token-manager pallet, one burner
    burner_balance,           \* Currency: the burner's free and reserved balance
    PendingBurnSubmission,    \* storage: tx_id -> Option of (burner, amount)
    published,                \* the transactions the bridge accepted so far
    last_burn_call            \* None, or the last call: its amount and result

discovery_vars ==
    <<event_signatures_to_find, primary_response, secondary_response, discovery_result,
      discovery_queries>>

handler_vars ==
    <<pc, current_node_author, eth_node_urls, evm_clients, cycle_instances, remaining,
      visited, instance_id, active_range, evm, attempts, retry_sleeps, acquisition,
      last_scan, trace, cycle_result, slept>>

parse_vars == <<parsed_log, parse_result>>

voting_vars == <<LinkedAccounts, LinkedAccountToIdentity, last_call, free_balance>>

stake_vars == <<now_sec, node_info, owner_balance, last_stake_call>>

revote_vars == <<votes_handed>>

additional_vars == <<transactions_to_check, additional_call>>

author_vars == <<authors_answer, keystore_keys, author_search>>

filter_vars == <<pool_filter, inner_pool, pool_call>>

burn_vars == <<burner_balance, PendingBurnSubmission, published, last_burn_call>>

vars ==
    <<discovery_vars, handler_vars, parse_vars, voting_vars, stake_vars, revote_vars,
      additional_vars, author_vars, filter_vars, burn_vars>>

\* the variables outside each part of the model
outside_discovery ==
    <<handler_vars, parse_vars, voting_vars, stake_vars, revote_vars,
      additional_vars, author_vars,
      filter_vars, burn_vars>>
outside_handler ==
    <<discovery_vars, parse_vars, voting_vars, stake_vars, revote_vars,
      additional_vars, author_vars,
      filter_vars, burn_vars>>
outside_parse ==
    <<discovery_vars, handler_vars, voting_vars, stake_vars, revote_vars,
      additional_vars, author_vars,
      filter_vars, burn_vars>>
outside_voting ==
    <<discovery_vars, handler_vars, parse_vars, stake_vars, revote_vars,
      additional_vars, author_vars,
      filter_vars, burn_vars>>
outside_stake ==
    <<discovery_vars, handler_vars, parse_vars, voting_vars, revote_vars,
      additional_vars, author_vars,
      filter_vars, burn_vars>>
outside_additional ==
    <<discovery_vars, handler_vars, parse_vars, voting_vars, stake_vars,
      revote_vars, author_vars,
      filter_vars, burn_vars>>
outside_author ==
    <<discovery_vars, handler_vars, parse_vars, voting_vars, stake_vars,
      revote_vars, additional_vars,
      filter_vars, burn_vars>>
outside_revote ==
    <<discovery_vars, parse_vars, voting_vars, stake_vars, additional_vars,
      author_vars,
      filter_vars, burn_vars>>
outside_filter ==
    <<discovery_vars, handler_vars, parse_vars, voting_vars, stake_vars,
      revote_vars, additional_vars, author_vars, burn_vars>>
outside_burn ==
    <<discovery_vars, handler_vars, parse_vars, voting_vars, stake_vars,
      revote_vars, additional_vars, author_vars, filter_vars>>

(***************************************************************************)
(* Bounds of the model.                                                    *)
(***************************************************************************)
\* the number of logs the chain returns to one identify_events call,
\* primary and secondary answers together
MaxLogs == 3

(***************************************************************************)
(* Option and Result values.                                               *)
(***************************************************************************)
None == <<>>
Some(x) == <<x>>
Ok(v) == [ok |-> TRUE, val |-> v]
Err(e) == [ok |-> FALSE, err |-> e]

Range(s) == {s[i] : i \in DOMAIN s}

(***************************************************************************)
(* Event signatures.  ValidEvents lives in sp_avn_common::event_types;     *)
(* the registry of EventRegistry::new names the variants.  Two primary     *)
(* events, the secondary one and a topic that is no ValidEvents signature  *)
(* stand for the table.                                                    *)
(***************************************************************************)
Lifted == "Lifted"
AvtLowerClaimed == "AvtLowerClaimed"
Erc20DirectTransfer == "Erc20DirectTransfer"
UnknownSignature == "UnknownSignature"

\* ValidEvents::values()
ValidEvents == {Lifted, AvtLowerClaimed, Erc20DirectTransfer}

\* ValidEvents::is_primary: emitted by the bridge contract itself
is_primary(event) == event \in {Lifted, AvtLowerClaimed}

all_primary_events == {e \in ValidEvents : is_primary(e)}
all_secondary_events == {e \in ValidEvents : ~is_primary(e)}

(***************************************************************************)
(* Addresses, payloads, transaction hashes.                                *)
(***************************************************************************)
ZeroAddress == "0x0"
BridgeContract == "0xB41D6E"
OtherContract == "0xABCD"
TokenA == "0x70CE"
\* bytes no decoder accepts
BadData == "malformed"

TxHashes == {"h1", "h2"}

\* identify_secondary_bridge_events: a 20-byte address right-aligned in a
\* 32-byte topic, the high 12 bytes zero
pad_address(a) == <<"000000000000000000000000", a>>

\* ChainLog
ChainLog(address, topics, data, transaction_hash, block_number) ==
    [address |-> address, topics |-> topics, data |-> data,
     transaction_hash |-> transaction_hash, block_number |-> block_number]

(***************************************************************************)
(* EventRegistry and the decoders.                                         *)
(***************************************************************************)
\* EventRegistry::new: the signatures that have a decoder
registry == ValidEvents

\* EventData variant built by the decoder registered for a signature
event_kind(signature) ==
    CASE signature = Lifted -> "LogLifted"
      [] signature = AvtLowerClaimed -> "LogLowerClaimed"
      [] signature = Erc20DirectTransfer -> "LogErc20Transfer"

\* the decoders (parse_bytes): the payload names the token contract
decode(signature, data, topics) ==
    IF data = BadData
    THEN Err("ParsingError")
    ELSE Ok([kind |-> event_kind(signature), token_contract |-> data])

parse_event_data(signature, data, topics) ==
    IF signature \notin registry
    THEN Err("ErrorParsingEventLogs")
    ELSE decode(signature, data, topics)

\* (mutant) the zero address is repaired in events of every kind
repair_token_contract_any_kind(event_data, log) ==
    IF event_data.token_contract = ZeroAddress
    THEN [event_data EXCEPT !.token_contract = log.address]
    ELSE event_data

\* the zero-address repair of a direct transfer
repair_token_contract(event_data, log) ==
    IF event_data.kind = "LogErc20Transfer" /\ event_data.token_contract = ZeroAddress
    THEN [event_data EXCEPT !.token_contract = log.address]
    ELSE event_data

parse_log(log) ==
    IF log.topics = <<>>
    THEN Err("MissingEventSignature")
    ELSE IF log.transaction_hash = None
    THEN Err("MissingTransactionHash")
    ELSE IF log.block_number = None
    THEN Err("MissingBlockNumber")
    ELSE LET signature == log.topics[1]
             parsed == parse_event_data(signature, log.data, log.topics)
         IN  IF ~parsed.ok
             THEN parsed
             ELSE Ok([event |->
                        [event_id |-> [signature |-> signature,
                                       transaction_hash |-> log.transaction_hash[1]],
                         event_data |-> repair_token_contract(parsed.val, log)],
                      block |-> log.block_number[1]])

(***************************************************************************)
(* identify_events.                                                        *)
(***************************************************************************)
\* whether the requested signatures hold a secondary event
extend_discovery_to_secondary_events(sigs) ==
    \E sig \in sigs : sig \in ValidEvents /\ sig \in all_secondary_events

\* (mutant) the secondary logs iterated first
chain_logs_secondary_first(logs, secondary_logs) == secondary_logs \o logs

\* logs.into_iter().chain(secondary_logs.into_iter())
chain_logs(logs, secondary_logs) == logs \o secondary_logs

\* (mutant) the map keyed by the whole event id, signature and hash
transaction_key_event_id(log) == <<log.transaction_hash[1], log.topics>>

\* the key a log is stored under in unique_transactions
transaction_key(log) == log.transaction_hash[1]

\* (mutant) no contains_key test: a later log replaces the entry
skip_log_no_dedup(log, unique_transactions) == log.transaction_hash = None

\* whether the loop leaves a log out without parsing it
skip_log(log, unique_transactions) ==
    \/ log.transaction_hash = None
    \/ transaction_key(log) \in DOMAIN unique_transactions

\* HashMap::insert
map_insert(m, k, v) == [x \in DOMAIN m \cup {k} |-> IF x = k THEN v ELSE m[x]]

\* the loop over the chained logs: Ok(unique_transactions), or the first
\* parse_log error
RECURSIVE merge_logs(_, _)
merge_logs(logs, unique_transactions) ==
    IF logs = <<>>
    THEN Ok(unique_transactions)
    ELSE LET log == Head(logs) IN
         IF skip_log(log, unique_transactions)
         THEN merge_logs(Tail(logs), unique_transactions)
         ELSE LET discovered_event == parse_log(log) IN
              IF ~discovered_event.ok
              THEN discovered_event
              ELSE merge_logs(Tail(logs),
                              map_insert(unique_transactions, transaction_key(log),
                                         discovered_event.val))

\* (mutant) the final retain left out
retain_everything(unique_transactions, sigs) == unique_transactions

\* unique_transactions.retain(..)
retain_requested(unique_transactions, sigs) ==
    [k \in {x \in DOMAIN unique_transactions :
              unique_transactions[x].event.event_id.signature \in sigs}
        |-> unique_transactions[k]]

\* the sequences that hold each value of a map once: into_values().collect()
\* yields them in the hash map's order, which is any order
into_values(m) ==
    {s \in [1 .. Cardinality(DOMAIN m) -> {m[k] : k \in DOMAIN m}] :
        \E f \in [1 .. Cardinality(DOMAIN m) -> DOMAIN m] :
            /\ \A i, j \in DOMAIN f : i # j => f[i] # f[j]
            /\ \A i \in DOMAIN f : s[i] = m[f[i]]}

\* LogFilter of identify_primary_bridge_events
primary_filter(start_block, end_block, bridge_contract_addresses) ==
    [from_block |-> start_block, to_block |-> end_block,
     addresses |-> bridge_contract_addresses,
     topics |-> <<Some(all_primary_events), None, None, None>>]

\* LogFilter of identify_secondary_bridge_events
secondary_filter(start_block, end_block, contract_addresses) ==
    [from_block |-> start_block, to_block |-> end_block,
     addresses |-> {},
     topics |-> <<Some(all_secondary_events), None,
                  Some({pad_address(a) : a \in contract_addresses}), None>>]

\* (mutant) the secondary query follows every successful primary query
secondary_queried_always(primary, sigs) == primary.ok

\* the logs the chain returned to the call: the secondary query is only made
\* when the primary one succeeded and a secondary signature is requested
secondary_queried(primary, sigs) ==
    primary.ok /\ extend_discovery_to_secondary_events(sigs)

\* the get_logs queries identify_events issues, in order
issued_queries(start_block, end_block, contract_addresses, primary, sigs) ==
    <<primary_filter(start_block, end_block, contract_addresses)>>
    \o (IF secondary_queried(primary, sigs)
        THEN <<secondary_filter(start_block, end_block, contract_addresses)>>
        ELSE <<>>)

\* every value identify_events can return, given the chain's two answers
identify_events(primary, secondary, sigs) ==
    IF ~primary.ok
    THEN {Err("ErrorGettingEventLogs")}
    ELSE IF secondary_queried(primary, sigs) /\ ~secondary.ok
    THEN {Err("ErrorGettingEventLogs")}
    ELSE LET secondary_logs ==
                 IF secondary_queried(primary, sigs) THEN secondary.val ELSE <<>>
             merged == merge_logs(chain_logs(primary.val, secondary_logs), << >>)
         IN  IF ~merged.ok
             THEN {merged}
             ELSE {Ok(events) : events \in into_values(retain_requested(merged.val, sigs))}

(***************************************************************************)
(* Constants of the handler.                                               *)
(***************************************************************************)
ETH_FINALITY == 20
SLEEP_TIME == 60
RETRY_LIMIT == 3
RETRY_DELAY == 5

\* the handler's variables while only identify_events is studied
HandlerIdle ==
    /\ pc = "off"
    /\ current_node_author = None
    /\ eth_node_urls = <<>>
    /\ evm_clients = <<>>
    /\ cycle_instances = <<>>
    /\ remaining = <<>>
    /\ visited = {}
    /\ instance_id = 0
    /\ active_range = None
    /\ evm = None
    /\ attempts = 0
    /\ retry_sleeps = <<>>
    /\ acquisition = None
    /\ last_scan = <<>>
    /\ trace = <<>>
    /\ cycle_result = None
    /\ slept = 0

\* the variables of parse_log while another part is studied
ParseIdle ==
    /\ parsed_log = None
    /\ parse_result = [ok |-> FALSE, err |-> "NotCalled"]

\* the storage of the cross-chain-voting pallet while another part is studied
VotingIdle ==
    /\ LinkedAccounts = <<>>
    /\ LinkedAccountToIdentity = <<>>
    /\ last_call = None
    /\ free_balance = <<>>

\* the filtered pool is not studied
FilterIdle == pool_filter = <<>> /\ inner_pool = <<>> /\ pool_call = <<>>

\* the token-manager pallet is not studied
BurnIdle ==
    /\ burner_balance = <<>>
    /\ PendingBurnSubmission = <<>>
    /\ published = 0
    /\ last_burn_call = <<>>

\* no vote has been handed to the host chain
RevoteIdle == votes_handed = 0

\* find_current_node_author is not studied on its own
AuthorIdle == authors_answer = <<>> /\ keystore_keys = <<>> /\ author_search = <<>>

\* identify_additional_events is not studied on its own
AdditionalIdle == transactions_to_check = <<>> /\ additional_call = <<>>

\* the storage of the node-manager pallet while another part is studied
StakeIdle ==
    /\ now_sec = 0
    /\ node_info = <<>>
    /\ owner_balance = <<>>
    /\ last_stake_call = <<>>

(***************************************************************************)
(* DiscoverySpec: the chain's answers and the requested signatures are     *)
(* drawn, then identify_events is applied to them.                         *)
(***************************************************************************)
NotCalled == [ok |-> FALSE, err |-> "NotCalled"]

\* the logs a chain answer is made of
DiscoveryLogs ==
    \* well-formed logs of the bridge contract
         {ChainLog(BridgeContract, <<s>>, TokenA, Some(h), Some(1)) :
             s \in {Lifted, AvtLowerClaimed, UnknownSignature}, h \in TxHashes}
    \* direct transfers on another contract, with and without the token address
    \cup {ChainLog(OtherContract,
                   <<Erc20DirectTransfer, "from", pad_address(BridgeContract)>>,
                   d, Some(h), Some(1)) :
             d \in {ZeroAddress, TokenA}, h \in TxHashes}
    \* logs without topics, with and without a transaction hash
    \cup {ChainLog(BridgeContract, <<>>, TokenA, t, Some(1)) :
             t \in {None} \cup {Some(h) : h \in TxHashes}}
    \* logs without a transaction hash, without a block number, with bad data
    \cup {ChainLog(BridgeContract, <<Lifted>>, TokenA, None, Some(1))}
    \cup {ChainLog(BridgeContract, <<Lifted>>, TokenA, Some(h), None) : h \in TxHashes}
    \cup {ChainLog(BridgeContract, <<Lifted>>, BadData, Some(h), Some(1)) : h \in TxHashes}

\* the get_logs answers of n logs; a failed query is counted with the empty ones
Responses(n) ==
    {Ok(s) : s \in [1 .. n -> DiscoveryLogs]} \cup (IF n = 0 THEN {Err("rpc")} ELSE {})

DiscoveryInit ==
    /\ event_signatures_to_find \in SUBSET ValidEvents
    /\ \E p \in 0 .. MaxLogs : \E s \in 0 .. (MaxLogs - p) :
          /\ primary_response \in Responses(p)
          /\ secondary_response \in Responses(s)
    /\ discovery_result = NotCalled
    /\ discovery_queries = <<>>
    /\ HandlerIdle /\ ParseIdle /\ VotingIdle /\ StakeIdle /\ RevoteIdle /\ AdditionalIdle
    /\ AuthorIdle /\ FilterIdle /\ BurnIdle

Discover ==
    /\ discovery_result = NotCalled
    /\ discovery_result' \in
          identify_events(primary_response, secondary_response, event_signatures_to_find)
    /\ discovery_queries' =
          issued_queries(1, 1, {BridgeContract}, primary_response,
                         event_signatures_to_find)
    /\ UNCHANGED <<event_signatures_to_find, primary_response, secondary_response>>
    /\ UNCHANGED outside_discovery

DiscoveryNext == Discover

DiscoverySpec == DiscoveryInit /\ [][DiscoveryNext]_vars

(***************************************************************************)
(* What the chain returned to the call, and what the call returned.        *)
(***************************************************************************)
DiscoveryCalled == discovery_result # NotCalled

\* the call returned a list of events
DiscoveryOk == discovery_result.ok

secondary_was_queried == secondary_queried(primary_response, event_signatures_to_find)

\* the logs the chain returned, in the order the call iterates them
returned_logs ==
    IF ~primary_response.ok THEN <<>>
    ELSE IF secondary_was_queried /\ secondary_response.ok
    THEN primary_response.val \o secondary_response.val
    ELSE primary_response.val

carries_hash(log, h) == log.transaction_hash = Some(h)

carries_requested_signature(log) ==
    log.topics # <<>> /\ log.topics[1] \in event_signatures_to_find

has_log_of(logs, h) == \E i \in DOMAIN logs : carries_hash(logs[i], h)

\* the first log of a list that carries hash h
first_log_of(logs, h) ==
    logs[CHOOSE i \in DOMAIN logs :
            /\ carries_hash(logs[i], h)
            /\ \A j \in 1 .. (i - 1) : ~carries_hash(logs[j], h)]

\* the events of the result that carry hash h, by position
events_of(h) ==
    {i \in DOMAIN discovery_result.val :
        discovery_result.val[i].event.event_id.transaction_hash = h}

(***************************************************************************)
(* Claims about identify_events.                                           *)
(***************************************************************************)
\* C1: when a transaction hash is carried by a log of the primary answer and
\* by a log of the secondary answer of the same call, every event the call
\* returns for that hash is the one decoded from the (first) primary log of
\* that hash: signature, event data and block are the primary log's.
C1_PrimaryPrecedence ==
    DiscoveryOk =>
        \A h \in TxHashes :
            ( /\ has_log_of(primary_response.val, h)
              /\ secondary_was_queried
              /\ has_log_of(secondary_response.val, h) )
            => \A i \in events_of(h) :
                   Ok(discovery_result.val[i]) =
                       parse_log(first_log_of(primary_response.val, h))

\* C1 witness: a hash in both answers, its secondary log decoding to another
\* event than its primary log, and an event returned for it.
C1_Witness ==
    /\ DiscoveryOk
    /\ \E h \in TxHashes :
          /\ has_log_of(primary_response.val, h)
          /\ secondary_was_queried
          /\ has_log_of(secondary_response.val, h)
          /\ parse_log(first_log_of(secondary_response.val, h)).ok
          /\ parse_log(first_log_of(secondary_response.val, h))
                 # parse_log(first_log_of(primary_response.val, h))
          /\ first_log_of(secondary_response.val, h).topics[1]
                 \in event_signatures_to_find
          /\ events_of(h) # {}

\* C2: in the list a call returns, a transaction hash whose returned logs
\* (one or more, primary and secondary) all carry requested signatures has
\* exactly one event, and no two events of the list share a transaction hash.
C2_OneEventPerHash ==
    DiscoveryOk =>
        /\ \A h \in TxHashes :
              ( /\ has_log_of(returned_logs, h)
                /\ \A i \in DOMAIN returned_logs :
                      carries_hash(returned_logs[i], h)
                          => carries_requested_signature(returned_logs[i]) )
              => Cardinality(events_of(h)) = 1
        /\ \A i, j \in DOMAIN discovery_result.val :
              i # j => discovery_result.val[i].event.event_id.transaction_hash
                         # discovery_result.val[j].event.event_id.transaction_hash

\* C2 witness: two or more returned logs with different signatures share a
\* hash, all requested, and the list holds one event for it.
C2_Witness ==
    /\ DiscoveryOk
    /\ \E h \in TxHashes : \E i, j \in DOMAIN returned_logs :
          /\ i # j
          /\ carries_hash(returned_logs[i], h) /\ carries_hash(returned_logs[j], h)
          /\ returned_logs[i].topics # returned_logs[j].topics
          /\ \A k \in DOMAIN returned_logs :
                carries_hash(returned_logs[k], h)
                    => carries_requested_signature(returned_logs[k])
          /\ Cardinality(events_of(h)) = 1

\* C3 as stated: in the list a call returns, every transaction hash for which
\* at least one returned log carries a requested signature has exactly one
\* event, also when an earlier log of the transaction is not requested.
C3_Original ==
    DiscoveryOk =>
        \A h \in TxHashes :
            (\E i \in DOMAIN returned_logs :
                /\ carries_hash(returned_logs[i], h)
                /\ carries_requested_signature(returned_logs[i]))
            => Cardinality(events_of(h)) = 1

\* C3 amended: in the list a call returns, a transaction hash has exactly one
\* event when the first returned log that carries it (primary logs first)
\* has a requested signature, and no event otherwise.
C3_FirstLogDecides ==
    DiscoveryOk =>
        \A h \in TxHashes :
            Cardinality(events_of(h)) =
                IF /\ has_log_of(returned_logs, h)
                   /\ carries_requested_signature(first_log_of(returned_logs, h))
                THEN 1 ELSE 0

\* C3 witness: the first log of a hash is not requested, a later one is, and
\* the list holds no event for the hash.
C3_Witness ==
    /\ DiscoveryOk
    /\ \E h \in TxHashes :
          /\ has_log_of(returned_logs, h)
          /\ ~carries_requested_signature(first_log_of(returned_logs, h))
          /\ \E i \in DOMAIN returned_logs :
                /\ carries_hash(returned_logs[i], h)
                /\ carries_requested_signature(returned_logs[i])
          /\ events_of(h) = {}

\* C4: every event a call returns has a signature of the requested set.
C4_OnlyRequestedSignatures ==
    DiscoveryOk =>
        \A i \in DOMAIN discovery_result.val :
            discovery_result.val[i].event.event_id.signature
                \in event_signatures_to_find

\* C4 witness: a log was decoded (first of its hash, the call succeeded), its
\* signature is not requested, and the list holds no event for its hash while
\* it holds an event for another one.
C4_Witness ==
    /\ DiscoveryOk
    /\ discovery_result.val # <<>>
    /\ \E h \in TxHashes :
          /\ has_log_of(returned_logs, h)
          /\ parse_log(first_log_of(returned_logs, h)).ok
          /\ ~carries_requested_signature(first_log_of(returned_logs, h))
          /\ events_of(h) = {}

\* C10: a call to which the chain returned a log without a transaction hash
\* fails with MissingTransactionHash.
C10_MissingTransactionHash ==
    ( /\ DiscoveryCalled
      /\ \E i \in DOMAIN returned_logs : returned_logs[i].transaction_hash = None )
    => discovery_result = Err("MissingTransactionHash")

\* every get_logs query the call made was answered with a list
all_queries_answered ==
    primary_response.ok /\ (secondary_was_queried => secondary_response.ok)

\* C11: a call to which the chain returned a log with an empty topics list
\* fails with MissingEventSignature, with or without a transaction hash on
\* that log and whether or not its hash was iterated before.
C11_MissingEventSignature ==
    ( /\ DiscoveryCalled
      /\ all_queries_answered
      /\ \E i \in DOMAIN returned_logs : returned_logs[i].topics = <<>> )
    => discovery_result = Err("MissingEventSignature")

(***************************************************************************)
(* The chain-client pool: initialise_evm, get_evm_client_for_instance.     *)
(***************************************************************************)
\* bounds of the handler model
MaxInstances == 2

\* endpoint urls: one that does not parse, two endpoints of chain 1, one of
\* chain 2
MalformedUrl == "not a url"
UrlA1 == "http://a1"
UrlA2 == "http://a2"
UrlB == "http://b"

\* the chain an endpoint serves
endpoint_chain_id(url) == IF url = UrlB THEN 2 ELSE 1

\* the configured endpoint lists the model runs under
EndpointLists ==
    {<<MalformedUrl, UrlA1>>, <<UrlB, UrlA1>>, <<UrlA1, UrlA2>>, <<UrlB>>,
     <<MalformedUrl, UrlB, UrlA1>>}

\* EvmClient::new_http: fails on a url that does not parse
new_http(url) == IF url = MalformedUrl THEN Err("invalid EVM RPC url") ELSE Ok([url |-> url])

\* EvmClient::chain_id: the endpoint's chain id, or a failed request
chain_id_answers(client) == {Err("rpc"), Ok(endpoint_chain_id(client.url))}

\* (mutant) the cache never answers
cached_client_never(clients, chain_id) == None

\* config.evm_clients.get(&chain_id)
cached_client(clients, chain_id) ==
    IF chain_id \in DOMAIN clients THEN Some(clients[chain_id]) ELSE None

\* (mutant) the freshly connected client replaces the cached one
cache_client_replacing(clients, chain_id, client) == map_insert(clients, chain_id, client)

\* the insertion of a freshly connected client: an existing entry is kept
cache_client(clients, chain_id, client) ==
    IF cached_client(clients, chain_id) # None
    THEN clients
    ELSE map_insert(clients, chain_id, client)

\* the for loop of initialise_evm from the i-th url on: every outcome
\* [result, evm_clients, scan] the endpoints' answers allow.  scan lists,
\* url by url, what was done: <<url, "new_http failed">>,
\* <<url, "chain_id failed">> or <<url, "chain_id", id>>.
RECURSIVE initialise_evm_from(_, _, _, _, _)
initialise_evm_from(urls, i, clients, wanted_chain_id, scan) ==
    IF i > Len(urls)
    THEN {[result |-> Err("GenericError"), evm_clients |-> clients, scan |-> scan]}
    ELSE LET client == new_http(urls[i]) IN
         IF ~client.ok
         THEN initialise_evm_from(urls, i + 1, clients, wanted_chain_id,
                                  Append(scan, <<urls[i], "new_http failed">>))
         ELSE UNION {
                IF ~answer.ok
                THEN initialise_evm_from(urls, i + 1, clients, wanted_chain_id,
                                         Append(scan, <<urls[i], "chain_id failed">>))
                ELSE LET chain_id == answer.val
                         inserted == cache_client(clients, chain_id, client.val)
                         scanned == Append(scan, <<urls[i], "chain_id", chain_id>>)
                     IN  IF chain_id = wanted_chain_id
                         THEN {[result |-> Ok(inserted[chain_id]),
                                evm_clients |-> inserted, scan |-> scanned]}
                         ELSE initialise_evm_from(urls, i + 1, inserted,
                                                  wanted_chain_id, scanned)
                : answer \in chain_id_answers(client.val)}

\* (mutant) only the last url is tried
initialise_evm_last_only(urls, clients, wanted_chain_id) ==
    initialise_evm_from(urls, Len(urls), clients, wanted_chain_id, <<>>)

initialise_evm(urls, clients, wanted_chain_id) ==
    initialise_evm_from(urls, 1, clients, wanted_chain_id, <<>>)

\* (mutant) the limit test off by one
retry_limit_reached_late(n) == n > RETRY_LIMIT

\* attempts >= RETRY_LIMIT, after a failed attempt
retry_limit_reached(n) == n >= RETRY_LIMIT

\* the while condition of the retry loop
retry_loop_continues(n) == n < RETRY_LIMIT

(***************************************************************************)
(* Bridge instances and what the host chain and the keystore answer.       *)
(***************************************************************************)
InstanceIds == 1 .. MaxInstances

\* instance.network.chain_id()
instance_chain_id(id) == IF id % 2 = 1 THEN 1 ELSE 2

\* instance.bridge_contract
instance_bridge_contract(id) == BridgeContract

\* the instance lists the host chain reports: the ids in increasing order
InstanceLists ==
    {s \in UNION {[1 .. n -> InstanceIds] : n \in 0 .. MaxInstances} :
        \A i, j \in DOMAIN s : i < j => s[i] < s[j]}

\* a u64 as its high and low 32 bits: hi * 2^32 + lo
U64(hi, lo) == [hi |-> hi, lo |-> lo]

\* u32 as u64
as_u64(n) == U64(0, n)

\* u64 as u32: the low 32 bits
as_u32(n) == n.lo

\* a + b of two u64 whose low halves do not carry
u64_add(a, b) == U64(a.hi + b.hi, a.lo + b.lo)

\* a >= b
u64_ge(a, b) == a.hi > b.hi \/ (a.hi = b.hi /\ a.lo >= b.lo)

\* external chain heads and active ranges the model draws from: heads around
\* end_block + ETH_FINALITY, and one beyond the u32 range
Heads == {U64(0, 119), U64(0, 120), U64(0, 121), U64(1, 7)}
EndBlocks == {100, 101}
PartitionIds == {0, 1}
ReceiptBlocks == {U64(0, 95)}

\* EthBlockRange with the partition id the host chain asks this node for
ActiveRange(end_block, partition_id) ==
    [range |-> [start_block |-> end_block - 9, end_block |-> end_block],
     partition_id |-> partition_id]

\* runtime api answers: a failed call is Err("rpc")
InstancesAnswers == {Err("rpc")} \cup {Ok(l) : l \in InstanceLists}
ActiveRangeAnswers ==
    {Err("rpc"), Ok(None)}
        \cup {Ok(Some(ActiveRange(e, p))) : e \in EndBlocks, p \in PartitionIds}
HasVotedAnswers == {Err("rpc"), Ok(TRUE), Ok(FALSE)}
SignaturesAnswers == {Err("rpc"), Ok({Lifted}), Ok({Lifted, Erc20DirectTransfer})}
AdditionalTransactionsAnswers == {Err("rpc"), Ok(<<>>), Ok(<<"h1">>)}
SubmitAnswers == {Err("rpc"), Ok("submitted")}

\* external chain answers
BlockNumberAnswers == {Err("rpc")} \cup {Ok(h) : h \in Heads}
ReceiptAnswers ==
    {Err("rpc"), Ok(None), Ok(Some([block_number |-> None]))}
        \cup {Ok(Some([block_number |-> Some(b)])) : b \in ReceiptBlocks}
HandlerLogs ==
    {ChainLog(BridgeContract, <<Lifted>>, TokenA, Some("h1"), Some(95)),
     ChainLog(OtherContract,
              <<Erc20DirectTransfer, "from", pad_address(BridgeContract)>>,
              ZeroAddress, Some("h1"), Some(95)),
     ChainLog(BridgeContract, <<UnknownSignature>>, TokenA, Some("h2"), Some(95))}
GetLogsAnswers == {Err("rpc"), Ok(<<>>)} \cup {Ok(<<l>>) : l \in HandlerLogs}

\* chain.get_receipt(tx): the receipt of h1 is in block 95 when it has a
\* block; that of any other transaction is in block 95 or in 2^32 + 96
receipt_answers(tx) ==
    IF tx = "h1"
    THEN ReceiptAnswers
    ELSE {Err("rpc"), Ok(None), Ok(Some([block_number |-> Some(U64(0, 95))])),
          Ok(Some([block_number |-> Some(U64(1, 96))]))}

\* keystore.sr25519_sign: an error, no key, or a signature over the message
sr25519_sign_answers(key, message) ==
    {Err("keystore"), Ok(None), Ok(Some(<<"signature", key, message>>))}

\* the authors of the host chain and the keys of the local keystore
Author1 == [address |-> "addr1", signing_key |-> "key1"]
Author2 == [address |-> "addr2", signing_key |-> "key2"]
AuthorsAnswers == {Err("rpc"), Ok(<<>>), Ok(<<Author2>>), Ok(<<Author2, Author1>>)}
Keystores == {<<>>, <<"key1">>}

\* an outcome of a call: what it returned and the calls made so far
Outcome(result, calls) == [result |-> result, trace |-> calls]

(***************************************************************************)
(* Discovery as the handler runs it: the get_logs and get_receipt calls    *)
(* are appended to the calls made so far, and every answer the external    *)
(* chain can give is followed.                                             *)
(***************************************************************************)
answered(answer) == IF answer.ok THEN "ok" ELSE "failed"

\* identify_events with its two queries
identify_events_call(start_block, end_block, contract_addresses, sigs, calls) ==
    UNION {
        LET t1 == Append(calls, <<"get_logs",
                                  primary_filter(start_block, end_block, contract_addresses),
                                  answered(primary)>>)
        IN  IF ~secondary_queried(primary, sigs)
            THEN {Outcome(r, t1) : r \in identify_events(primary, Ok(<<>>), sigs)}
            ELSE UNION {
                   {Outcome(r, Append(t1, <<"get_logs",
                                            secondary_filter(start_block, end_block,
                                                             contract_addresses),
                                            answered(secondary)>>)) :
                       r \in identify_events(primary, secondary, sigs)}
                   : secondary \in GetLogsAnswers}
        : primary \in GetLogsAnswers}

\* the receipts of the given transactions: all requests are issued
RECURSIVE get_receipts(_, _, _)
get_receipts(txs, answers, calls) ==
    IF txs = <<>>
    THEN {[answers |-> answers, trace |-> calls]}
    ELSE UNION {get_receipts(Tail(txs), Append(answers, r),
                             Append(calls, <<"get_receipt", Head(txs), r>>))
                : r \in receipt_answers(Head(txs))}

\* results.into_iter().flatten().filter_map(|r| r.block_number)
receipt_blocks(answers) ==
    LET found == SelectSeq(answers,
                           LAMBDA a : a.val # None /\ a.val[1].block_number # None)
    IN  [i \in DOMAIN found |-> found[i].val[1].block_number[1]]

identify_additional_event_info(txs, calls) ==
    {Outcome(IF \E i \in DOMAIN g.answers : ~g.answers[i].ok
             THEN Err("ErrorGettingEventLogs")
             ELSE Ok(receipt_blocks(g.answers)),
             g.trace)
        : g \in get_receipts(txs, <<>>, calls)}

\* the orders in which n futures awaited together can complete
CompletionOrders(n) ==
    {order \in [1 .. n -> 1 .. n] : \A i, j \in 1 .. n : order[i] = order[j] => i = j}

\* (mutant) the join ends with the future that completes first
try_join_all_first_completed(results, completion_order) ==
    IF results = <<>>
    THEN Ok(<<>>)
    ELSE LET first == results[completion_order[1]]
         IN  IF first.ok THEN Ok(<<first.val>>) ELSE first

\* futures::future::try_join_all: the values in the order of the futures, or
\* the error of the failing future that completes first
try_join_all(results, completion_order) ==
    LET failed == {k \in DOMAIN completion_order : ~results[completion_order[k]].ok}
    IN  IF failed = {}
        THEN Ok([i \in DOMAIN results |-> results[i].val])
        ELSE results[completion_order[CHOOSE k \in failed : \A j \in failed : k <= j]]

\* into_iter().flatten().collect() of a list of lists
RECURSIVE flatten(_)
flatten(lists) == IF lists = <<>> THEN <<>> ELSE Head(lists) \o flatten(Tail(lists))

\* the futures of identify_additional_events: identify_events on [b, b] for
\* each block b, cast to u32.  Every run [results, trace] the chain's answers
\* allow; the trace lists the calls of each discovery run to its end (a
\* failing join drops the discoveries still pending, whose later calls are
\* then not made)
RECURSIVE discoveries_of_blocks(_, _, _, _, _)
discoveries_of_blocks(blocks, contract_addresses, sigs, results, calls) ==
    IF blocks = <<>>
    THEN {[results |-> results, trace |-> calls]}
    ELSE UNION {
           discoveries_of_blocks(Tail(blocks), contract_addresses, sigs,
                                 Append(results, o.result), o.trace)
           : o \in identify_events_call(as_u32(Head(blocks)), as_u32(Head(blocks)),
                                        contract_addresses, sigs, calls)}

\* try_join_all(futures).await?.into_iter().flatten().collect()
join_events(results, completion_order) ==
    LET joined == try_join_all(results, completion_order)
    IN  IF joined.ok THEN Ok(flatten(joined.val)) ELSE joined

\* identify_additional_events up to the await of its discoveries: the
\* blocks of the receipts, or the error of the lookup, then the results of
\* the discoveries and the calls made
additional_runs(contract_addresses, sigs, txs, calls) ==
    UNION {
        IF ~info.result.ok
        THEN {[blocks |-> info.result, results |-> <<>>, trace |-> info.trace]}
        ELSE {[blocks |-> info.result, results |-> run.results, trace |-> run.trace]
                : run \in discoveries_of_blocks(info.result.val, contract_addresses,
                                                sigs, <<>>, info.trace)}
        : info \in identify_additional_event_info(txs, calls)}

\* what a run returns when its discoveries complete in the given order
awaited(run, completion_order) ==
    Outcome(IF ~run.blocks.ok THEN run.blocks
            ELSE join_events(run.results, completion_order),
            run.trace)

identify_additional_events(contract_addresses, sigs, txs, calls) ==
    UNION {
        {awaited(run, completion_order)
            : completion_order \in CompletionOrders(Len(run.results))}
        : run \in additional_runs(contract_addresses, sigs, txs, calls)}

(***************************************************************************)
(* Proofs, partitions, votes.                                              *)
(***************************************************************************)
SUBMIT_LATEST_ETH_BLOCK_CONTEXT == "SUBMIT_LATEST_ETH_BLOCK_CONTEXT"
SUBMIT_ETHEREUM_EVENTS_HASH_CONTEXT == "SUBMIT_ETHEREUM_EVENTS_HASH_CONTEXT"

\* the signing payload: context tag, bridge instance, node address, value
encode_eth_event_submission_data(instance, context, account_id, data) ==
    <<context, instance, account_id, data>>

\* EthereumEventsPartitionFactory::create_partitions: the events of the
\* range in partitions numbered from 0; here all events fit in one
create_partitions(range, events) ==
    <<[range |-> range, partition |-> 0, data |-> Range(events)]>>

\* (mutant) latest_block > current_block_num + num_blocks_to_wait
is_evm_block_finalised_strict(latest_block, current_block_num, num_blocks_to_wait) ==
    ~u64_ge(u64_add(current_block_num, num_blocks_to_wait), latest_block)

\* the comparison of is_evm_block_finalised
is_evm_block_finalised(latest_block, current_block_num, num_blocks_to_wait) ==
    u64_ge(latest_block, u64_add(current_block_num, num_blocks_to_wait))

\* (mutant) the vote is cast whatever the host chain says
vote_due_always(has_casted_vote) == TRUE

\* if !has_casted_vote
vote_due(has_casted_vote) == ~has_casted_vote

\* (mutant) a missing signature is replaced by an empty one
signature_of_unchecked(signed) ==
    IF ~signed.ok
    THEN Err("Failed to sign the proof")
    ELSE IF signed.val = None
    THEN Ok(<<"signature", "none", <<>>>>)
    ELSE Ok(signed.val[1])

\* the signature of the keystore's answer: map_err(..)?.ok_or_else(..)?
signature_of(signed) ==
    IF ~signed.ok
    THEN Err("Failed to sign the proof")
    ELSE IF signed.val = None
    THEN Err("Signature generation failed")
    ELSE Ok(signed.val[1])

\* sign the proof and hand the vote to the host chain: shared tail of
\* submit_latest_ethereum_block and execute_event_processing
sign_and_submit(call, id, author, proof, value, failure, calls) ==
    UNION {
        LET t1 == Append(calls, <<"sr25519_sign", author.signing_key, proof, signed>>)
            signature == signature_of(signed)
        IN  IF ~signature.ok
            THEN {Outcome(signature, t1)}
            ELSE {Outcome(IF sent.ok THEN Ok("done") ELSE Err(failure),
                          Append(t1, <<call, id, author.address, value,
                                       signature.val, sent>>))
                    : sent \in SubmitAnswers}
        : signed \in sr25519_sign_answers(author.signing_key, proof)}

submit_latest_ethereum_block(id, author, calls) ==
    UNION {
        LET t1 == Append(calls, <<"query_has_author_casted_vote", id, author.address, voted>>)
        IN  IF ~voted.ok
            THEN {Outcome(Err("Failed to check if author has cast latest vote"), t1)}
            ELSE IF ~vote_due(voted.val)
            THEN {Outcome(Ok("done"), t1)}
            ELSE UNION {
                   LET t2 == Append(t1, <<"block_number", head>>)
                   IN  IF ~head.ok
                       THEN {Outcome(Err("Failed to retrieve latest evm block"), t2)}
                       ELSE sign_and_submit(
                                "submit_latest_ethereum_block", id, author,
                                encode_eth_event_submission_data(
                                    id, SUBMIT_LATEST_ETH_BLOCK_CONTEXT,
                                    author.address, as_u32(head.val)),
                                as_u32(head.val),
                                "Failed to submit latest ethereum block vote", t2)
                   : head \in BlockNumberAnswers}
        : voted \in HasVotedAnswers}

execute_event_processing(id, sigs, contract_addresses, partition_id, author, range, additional_transactions_to_check, calls) ==
    UNION {
        IF ~additional.result.ok
        THEN {Outcome(Err("Error retrieving additional events"), additional.trace)}
        ELSE UNION {
               IF ~ranged.result.ok
               THEN {Outcome(Err("Error retrieving events"), ranged.trace)}
               ELSE LET all_events == additional.result.val \o ranged.result.val
                        partitions == create_partitions(range, all_events)
                        t1 == Append(ranged.trace, <<"create_partitions", range, all_events>>)
                        found == {i \in DOMAIN partitions :
                                     partitions[i].partition = partition_id}
                    IN  IF found = {}
                        THEN {Outcome(Err("Partition not found"), t1)}
                        ELSE LET partition ==
                                     partitions[CHOOSE i \in found :
                                                   \A j \in found : i <= j]
                             IN  sign_and_submit(
                                     "submit_vote", id, author,
                                     encode_eth_event_submission_data(
                                         id, SUBMIT_ETHEREUM_EVENTS_HASH_CONTEXT,
                                         author.address, partition),
                                     partition, "Failed to submit vote", t1)
               : ranged \in identify_events_call(range.start_block, range.end_block,
                                                 contract_addresses, sigs,
                                                 additional.trace)}
        : additional \in identify_additional_events(contract_addresses, sigs,
                                                    additional_transactions_to_check,
                                                    calls)}

process_events(id, range, partition_id, author, calls) ==
    UNION {
        LET t1 == Append(calls, <<"query_signatures", id, sigs>>)
        IN  IF ~sigs.ok
            THEN {Outcome(Err("Failed to query event signatures"), t1)}
            ELSE UNION {
                LET t2 == Append(t1, <<"query_has_author_casted_vote", id,
                                       author.address, voted>>)
                IN  IF ~voted.ok
                    THEN {Outcome(Err("Failed to check if author has casted event vote"), t2)}
                    ELSE UNION {
                        LET t3 == Append(t2, <<"additional_transactions", id, txs>>)
                        IN  IF ~txs.ok
                            THEN {Outcome(Err("Failed to query additional transactions"), t3)}
                            ELSE IF vote_due(voted.val)
                            THEN execute_event_processing(
                                     id, sigs.val, {instance_bridge_contract(id)},
                                     partition_id, author, range, txs.val, t3)
                            ELSE {Outcome(Ok("done"), t3)}
                        : txs \in AdditionalTransactionsAnswers}
                : voted \in HasVotedAnswers}
        : sigs \in SignaturesAnswers}

(***************************************************************************)
(* Spec: start_eth_event_handler.                                          *)
(***************************************************************************)
\* (mutant) the last matching author is returned
find_current_node_author_last(authors, node_signing_keys) ==
    IF authors.ok
    THEN LET matching == SelectSeq(authors.val,
                                   LAMBDA a : a.signing_key \in Range(node_signing_keys))
         IN  IF matching = <<>> THEN None ELSE Some(matching[Len(matching)])
    ELSE None

\* the first author of the host chain whose signing key the keystore holds
\* (the keys are sorted and binary-searched: a membership test)
find_current_node_author(authors, node_signing_keys) ==
    IF authors.ok
    THEN LET matching == SelectSeq(authors.val,
                                   LAMBDA a : a.signing_key \in Range(node_signing_keys))
         IN  IF matching = <<>> THEN None ELSE Some(matching[1])
    ELSE None

\* the discovery variables while the handler is studied
DiscoveryIdle ==
    /\ event_signatures_to_find = {}
    /\ primary_response = Ok(<<>>)
    /\ secondary_response = Ok(<<>>)
    /\ discovery_result = NotCalled
    /\ discovery_queries = <<>>

Init ==
    /\ DiscoveryIdle /\ ParseIdle /\ VotingIdle /\ StakeIdle /\ RevoteIdle /\ AdditionalIdle
    /\ AuthorIdle /\ FilterIdle /\ BurnIdle
    /\ pc = "resolve_author"
    /\ current_node_author = None
    /\ eth_node_urls \in EndpointLists
    /\ evm_clients = <<>>
    /\ cycle_instances = <<>>
    /\ remaining = <<>>
    /\ visited = {}
    /\ instance_id = 0
    /\ active_range = None
    /\ evm = None
    /\ attempts = 0
    /\ retry_sleeps = <<>>
    /\ acquisition = None
    /\ last_scan = <<>>
    /\ trace = <<>>
    /\ cycle_result = None
    /\ slept = 0

cycle_vars ==
    <<cycle_instances, remaining, visited, instance_id, active_range, trace, cycle_result>>
pool_vars == <<evm_clients, evm, attempts, retry_sleeps, acquisition, last_scan>>

\* (mutant) the author loop is left whatever was found
author_found_always(node_author) == TRUE

\* if let Some(node_author) = find_current_node_author(..): set it and break
author_found(node_author) == node_author # None

\* the author loop: query_authors, the keystore, find_current_node_author
ResolveAuthor ==
    /\ pc = "resolve_author"
    /\ \E authors \in AuthorsAnswers, node_signing_keys \in Keystores :
          LET node_author == find_current_node_author(authors, node_signing_keys)
          IN  IF author_found(node_author)
              THEN /\ current_node_author' = node_author
                   /\ pc' = "cycle_start"
              ELSE /\ pc' = "author_sleep"
                   /\ UNCHANGED current_node_author
    /\ UNCHANGED <<outside_handler, slept, eth_node_urls, cycle_vars, pool_vars>>

\* sleep(10 * SLEEP_TIME), then the author loop again
AuthorSleep ==
    /\ pc = "author_sleep"
    /\ slept' = 10 * SLEEP_TIME
    /\ pc' = "resolve_author"
    /\ UNCHANGED <<outside_handler, current_node_author, eth_node_urls, cycle_vars,
                   pool_vars>>

\* query_runtime_and_process starts: the instances of the host chain
QueryInstances ==
    /\ pc = "cycle_start"
    /\ \E instances \in InstancesAnswers :
          IF instances.ok
          THEN /\ cycle_instances' = instances.val
               /\ remaining' = instances.val
               /\ cycle_result' = None
               /\ pc' = "next_instance"
          ELSE /\ cycle_instances' = <<>>
               /\ remaining' = <<>>
               /\ cycle_result' = Some(Err("Failed to get instances"))
               /\ pc' = "cycle_sleep"
    /\ visited' = {}
    /\ instance_id' = 0
    /\ active_range' = None
    /\ trace' = <<>>
    /\ UNCHANGED <<outside_handler, slept, current_node_author, eth_node_urls, pool_vars>>

\* the for loop is over: query_runtime_and_process returns Ok
EndCycle ==
    /\ pc = "next_instance"
    /\ remaining = <<>>
    /\ cycle_result' = Some(Ok("done"))
    /\ pc' = "cycle_sleep"
    /\ UNCHANGED <<outside_handler, slept, current_node_author, eth_node_urls, pool_vars,
                   cycle_instances, remaining, visited, instance_id, active_range, trace>>

\* get_evm_client_for_instance up to its retry loop: a cached client is
\* returned (the caller goes on at pc_found), else the loop is entered
GetEvmClientForInstance(chain_id, pc_found) ==
    LET cached == cached_client(evm_clients, chain_id)
    IN  /\ attempts' = 0
        /\ retry_sleeps' = <<>>
        /\ last_scan' = <<>>
        /\ IF cached # None
           THEN /\ evm' = cached
                /\ acquisition' = Some([chain_id |-> chain_id, cached |-> TRUE,
                                        result |-> Some(Ok(cached[1]))])
                /\ pc' = pc_found
           ELSE /\ evm' = None
                /\ acquisition' = Some([chain_id |-> chain_id, cached |-> FALSE,
                                        result |-> None])
                /\ pc' = "initialise"

\* the next iteration: query_active_block_range, then
\* get_evm_client_for_instance up to its cache lookup
NextInstance ==
    /\ pc = "next_instance"
    /\ remaining # <<>>
    /\ LET id == Head(remaining)
       IN  /\ instance_id' = id
           /\ remaining' = Tail(remaining)
           /\ visited' = visited \cup {id}
           /\ \E result \in ActiveRangeAnswers :
                 /\ trace' = <<<<"query_active_block_range", id, result>>>>
                 /\ IF ~result.ok
                    THEN /\ active_range' = None
                         /\ cycle_result' = Some(Err("Failed to query bridge contract"))
                         /\ pc' = "cycle_sleep"
                         /\ UNCHANGED <<evm, attempts, retry_sleeps, acquisition, last_scan>>
                    ELSE /\ active_range' = result.val
                         /\ cycle_result' = None
                         /\ GetEvmClientForInstance(instance_chain_id(id), "process")
    /\ UNCHANGED <<outside_handler, slept, current_node_author, eth_node_urls, evm_clients,
                   cycle_instances>>

\* (mutant) the error of the acquisition is returned from the cycle
on_client_error_return(e) == "return"

\* the match on get_evm_client_for_instance's result in the for loop: the
\* error is logged and the loop continues with the next instance
on_client_error(e) == "continue"

\* get_evm_client_for_instance returned Err(e) to the for loop
ClientError(e) ==
    /\ acquisition' = Some([acquisition[1] EXCEPT !.result = Some(Err(e))])
    /\ IF on_client_error(e) = "continue"
       THEN /\ pc' = "next_instance"
            /\ UNCHANGED cycle_result
       ELSE /\ pc' = "cycle_sleep"
            /\ cycle_result' = Some(Err(e))

\* the variables of the cycle the retry loop does not touch
loop_vars == <<cycle_instances, remaining, visited, instance_id, active_range, trace>>

\* one pass of the retry loop: initialise_evm and what follows its result
InitialiseEvm ==
    /\ pc = "initialise"
    /\ \E o \in initialise_evm(eth_node_urls, evm_clients, acquisition[1].chain_id) :
          /\ evm_clients' = o.evm_clients
          /\ last_scan' = o.scan
          /\ IF o.result.ok
             THEN /\ evm' = Some(o.result.val)
                  /\ acquisition' = Some([acquisition[1] EXCEPT !.result = Some(o.result)])
                  /\ pc' = "process"
                  /\ UNCHANGED <<attempts, cycle_result>>
             ELSE /\ attempts' = attempts + 1
                  /\ evm' = None
                  /\ IF retry_limit_reached(attempts + 1)
                     THEN ClientError("RetryLimitReached")
                     ELSE /\ pc' = "retry_sleep"
                          /\ UNCHANGED <<acquisition, cycle_result>>
    /\ UNCHANGED <<outside_handler, slept, current_node_author, eth_node_urls, loop_vars,
                   retry_sleeps>>

\* sleep(RETRY_DELAY), then the while condition
RetrySleep ==
    /\ pc = "retry_sleep"
    /\ retry_sleeps' = Append(retry_sleeps, RETRY_DELAY)
    /\ IF retry_loop_continues(attempts)
       THEN /\ pc' = "initialise"
            /\ UNCHANGED <<acquisition, cycle_result>>
       ELSE ClientError("GenericError")
    /\ UNCHANGED <<outside_handler, slept, current_node_author, eth_node_urls, loop_vars,
                   evm_clients, evm, attempts, last_scan>>

\* what follows the result of the calls made for an instance
Proceed(o) ==
    /\ trace' = o.trace
    /\ IF o.result.ok
       THEN /\ pc' = "next_instance"
            /\ UNCHANGED cycle_result
       ELSE /\ pc' = "cycle_sleep"
            /\ cycle_result' = Some(o.result)

\* a range is active: the finality gate, then process_events
ProcessActiveRange ==
    /\ pc = "process"
    /\ active_range # None
    /\ \E latest_block \in BlockNumberAnswers :
          LET range == active_range[1].range
              t1 == Append(trace, <<"block_number", latest_block>>)
          IN  IF ~latest_block.ok
              THEN Proceed(Outcome(Err("Failed to get latest block number"), t1))
              ELSE IF is_evm_block_finalised(latest_block.val, as_u64(range.end_block),
                                                  as_u64(ETH_FINALITY))
              THEN \E o \in process_events(instance_id, range,
                                            active_range[1].partition_id,
                                            current_node_author[1], t1) :
                      Proceed(o)
              ELSE Proceed(Outcome(Ok("done"), t1))
    /\ UNCHANGED <<outside_handler, slept, current_node_author, eth_node_urls, pool_vars,
                   cycle_instances, remaining, visited, instance_id, active_range>>

\* no range is active: the latest-block vote
SubmitLatestEthereumBlock ==
    /\ pc = "process"
    /\ active_range = None
    /\ \E o \in submit_latest_ethereum_block(instance_id, current_node_author[1], trace) :
          Proceed(o)
    /\ UNCHANGED <<outside_handler, slept, current_node_author, eth_node_urls, pool_vars,
                   cycle_instances, remaining, visited, instance_id, active_range>>

\* (mutant) an Err of the cycle ends the task
handle_cycle_result_exit_on_err(result) == IF result.ok THEN "sleep" ELSE "exit"

\* the match on what query_runtime_and_process returned: Ok is ignored, Err
\* is logged, and both fall through to the sleep
handle_cycle_result(result) == "sleep"

\* sleep(SLEEP_TIME), then the next cycle
CycleSleep ==
    /\ pc = "cycle_sleep"
    /\ handle_cycle_result(cycle_result[1]) = "sleep"
    /\ slept' = SLEEP_TIME
    /\ pc' = "cycle_start"
    /\ UNCHANGED <<outside_handler, current_node_author, eth_node_urls, cycle_vars,
                   pool_vars>>

Next ==
    \/ ResolveAuthor
    \/ AuthorSleep
    \/ QueryInstances
    \/ EndCycle
    \/ NextInstance
    \/ InitialiseEvm
    \/ RetrySleep
    \/ ProcessActiveRange
    \/ SubmitLatestEthereumBlock
    \/ CycleSleep

Spec == Init /\ [][Next]_vars

(***************************************************************************)
(* PoolSpec: get_evm_client_for_instance called again and again, for any   *)
(* chain id, on one configuration.  A call that returned leaves pc at      *)
(* "process" (a client) or "next_instance" (RetryLimitReached).            *)
(***************************************************************************)
WantedChainIds == {1, 2, 3}

PoolInit ==
    /\ DiscoveryIdle /\ ParseIdle /\ VotingIdle /\ StakeIdle /\ RevoteIdle /\ AdditionalIdle
    /\ AuthorIdle /\ FilterIdle /\ BurnIdle
    /\ pc = "pool_idle"
    /\ current_node_author = None
    /\ eth_node_urls \in EndpointLists
    /\ evm_clients = <<>>
    /\ cycle_instances = <<>>
    /\ remaining = <<>>
    /\ visited = {}
    /\ instance_id = 0
    /\ active_range = None
    /\ evm = None
    /\ attempts = 0
    /\ retry_sleeps = <<>>
    /\ acquisition = None
    /\ last_scan = <<>>
    /\ trace = <<>>
    /\ cycle_result = None
    /\ slept = 0

\* a call of get_evm_client_for_instance
PoolCall ==
    /\ pc \in {"pool_idle", "process", "next_instance"}
    /\ \E chain_id \in WantedChainIds : GetEvmClientForInstance(chain_id, "process")
    /\ UNCHANGED <<outside_handler, slept, current_node_author, eth_node_urls, evm_clients,
                   cycle_vars>>

PoolNext == PoolCall \/ InitialiseEvm \/ RetrySleep

PoolSpec == PoolInit /\ [][PoolNext]_vars

\* the handler task is scheduled on: a pending call or sleep completes
FairSpec == Spec /\ WF_vars(CycleSleep) /\ WF_vars(AuthorSleep)

\* the task is scheduled on: a pending rpc call or sleep completes
PoolFairSpec == PoolSpec /\ WF_vars(InitialiseEvm) /\ WF_vars(RetrySleep)

(***************************************************************************)
(* Claims about the cycle (Spec).  trace holds the calls made for the      *)
(* instance of the current iteration, active_range what the host chain     *)
(* answered for it in this cycle.                                          *)
(***************************************************************************)
\* the positions of the trace at which one of the named calls was made
calls_of(names) == {i \in DOMAIN trace : trace[i][1] \in names}

\* the calls of event processing: process_events and all it runs
EventProcessingCalls ==
    {"query_signatures", "query_has_author_casted_vote", "additional_transactions",
     "get_receipt", "get_logs", "create_partitions", "sr25519_sign", "submit_vote"}

\* the calls that hand a vote to the host chain
VoteCalls == {"submit_vote", "submit_latest_ethereum_block"}

\* head >= n for a head read from the external chain
head_at_least(head, n) == head.hi > 0 \/ head.lo >= n

\* C5: for an instance with an active range, event processing runs in a
\* cycle only after the external chain head was read in that cycle with
\* head >= range.end_block + 20, and it does run when the head read
\* satisfies this; otherwise no call of event processing is made and nothing
\* is submitted.  (End block 100: head 119 is not final, head 120 is.)
C5_FinalityGate ==
    active_range # None =>
        /\ \A i \in calls_of(EventProcessingCalls \cup VoteCalls) :
              \E j \in calls_of({"block_number"}) :
                  /\ j < i
                  /\ trace[j][2].ok
                  /\ head_at_least(trace[j][2].val, active_range[1].range.end_block + 20)
        /\ \A j \in calls_of({"block_number"}) :
              trace[j][2].ok =>
                  ( head_at_least(trace[j][2].val, active_range[1].range.end_block + 20)
                    <=> calls_of({"query_signatures"}) # {} )

\* C5 witness: end block 100, head 120 read, and the vote was submitted.
C5_Witness ==
    /\ active_range # None
    /\ active_range[1].range.end_block = 100
    /\ \E j \in calls_of({"block_number"}) : trace[j][2] = Ok(U64(0, 120))
    /\ calls_of({"submit_vote"}) # {}

\* C6: when a cycle is over, every instance the host chain reported in it
\* has been reached by the loop: a failure in one instance did not keep the
\* later ones from being processed.
C6_FailureIsolated ==
    pc = "cycle_sleep" => \A i \in DOMAIN cycle_instances : cycle_instances[i] \in visited

\* C7: a vote is handed to the host chain only after has_voted was read as
\* false for the instance in this cycle; when it was read as true, no log or
\* receipt query is made, nothing is signed and nothing is submitted.
C7_VoteOnlyIfNotVoted ==
    /\ \A i \in calls_of(VoteCalls) :
          \E j \in calls_of({"query_has_author_casted_vote"}) :
              j < i /\ trace[j][4] = Ok(FALSE)
    /\ (\E j \in calls_of({"query_has_author_casted_vote"}) : trace[j][4] = Ok(TRUE))
          => calls_of({"get_logs", "get_receipt", "sr25519_sign"} \cup VoteCalls) = {}

\* C7 witness: the range is final, has_voted was read as true, the iteration
\* is over and made no further call.
C7_Witness ==
    /\ pc = "next_instance"
    /\ active_range # None
    /\ \E j \in calls_of({"query_has_author_casted_vote"}) : trace[j][4] = Ok(TRUE)
    /\ calls_of({"additional_transactions"}) # {}
    /\ calls_of({"get_logs", "get_receipt", "sr25519_sign"} \cup VoteCalls) = {}

(***************************************************************************)
(* Claims about the pool (PoolSpec, PoolFairSpec).                         *)
(***************************************************************************)
Acquiring == pc \in {"initialise", "retry_sleep"}

scan_failed(entry) == Len(entry) = 2

\* C8: with the endpoint list [bad, good], when the scan found bad failing
\* and good reporting the wanted chain id c, the call returns the client of
\* good, which is cached for c; a request for a cached chain id returns the
\* cached client without constructing a client or fetching a chain id, and
\* no scan is ever run for a chain id that is cached.
C8_FailoverThenCache ==
    acquisition # None =>
        LET a == acquisition[1] IN
        /\ ( /\ Len(eth_node_urls) = 2
             /\ Len(last_scan) = 2
             /\ scan_failed(last_scan[1])
             /\ last_scan[2] = <<eth_node_urls[2], "chain_id", a.chain_id>> )
           => /\ a.result = Some(Ok([url |-> eth_node_urls[2]]))
              /\ evm = Some([url |-> eth_node_urls[2]])
              /\ a.chain_id \in DOMAIN evm_clients
              /\ evm_clients[a.chain_id] = [url |-> eth_node_urls[2]]
        /\ a.cached
           => /\ last_scan = <<>> /\ attempts = 0 /\ retry_sleeps = <<>>
              /\ a.chain_id \in DOMAIN evm_clients
              /\ a.result = Some(Ok(evm_clients[a.chain_id]))
              /\ evm = Some(evm_clients[a.chain_id])
        /\ Acquiring => a.chain_id \notin DOMAIN evm_clients

\* C8 witness: the list is [bad, good], the client of good is cached for its
\* chain, and a later request for that chain was answered from the cache.
C8_Witness ==
    /\ eth_node_urls = <<MalformedUrl, UrlA1>>
    /\ acquisition # None
    /\ acquisition[1].cached
    /\ acquisition[1].chain_id = 1
    /\ evm = Some([url |-> UrlA1])

\* C9: an acquisition whose attempts all fail makes exactly 3 attempts with a
\* 5 s sleep between consecutive ones and returns RetryLimitReached; no
\* other error is returned, the attempts never exceed 3, and every
\* acquisition ends.
C9_RetryExhaustion ==
    /\ [](acquisition # None =>
            /\ attempts <= 3
            /\ \A e \in {"RetryLimitReached", "GenericError"} :
                  acquisition[1].result = Some(Err(e))
                      => /\ e = "RetryLimitReached"
                         /\ attempts = 3
                         /\ retry_sleeps = <<5, 5>>
            /\ (Acquiring /\ pc = "initialise") => Len(retry_sleeps) = attempts)
    /\ [](Acquiring => <>(~Acquiring))

\* C9 witness: three failed attempts, two sleeps of 5 s, RetryLimitReached.
C9_Witness ==
    /\ acquisition # None
    /\ acquisition[1].result = Some(Err("RetryLimitReached"))
    /\ attempts = 3
    /\ retry_sleeps = <<5, 5>>
    /\ pc = "next_instance"

(***************************************************************************)
(* Claims about the top-level loop (FairSpec).                             *)
(***************************************************************************)
\* the handler is in its main loop: in a cycle or in the sleep after it
InMainLoop ==
    pc \in {"cycle_start", "next_instance", "initialise", "retry_sleep", "process",
            "cycle_sleep"}

\* C12: once the author is resolved the handler stays in its main loop for
\* ever; when a cycle has returned, with Ok or with Err, the only step is
\* the sleep of 60 s followed by the start of another cycle, and the handler
\* never stays at that point for ever.
C12_LoopNeverExits ==
    /\ [](current_node_author # None => InMainLoop)
    /\ [](pc = "cycle_sleep" => cycle_result # None)
    /\ [][pc = "cycle_sleep" => (pc' = "cycle_start" /\ slept' = 60)]_vars
    /\ []<>(pc # "cycle_sleep")

\* C12 witness: a cycle returned Err, the handler slept 60 s and is at the
\* start of another cycle.
C12_Witness ==
    /\ pc = "cycle_start"
    /\ slept = 60
    /\ cycle_result # None
    /\ ~cycle_result[1].ok

(***************************************************************************)
(* Claims about a failed client acquisition in the cycle (Spec).           *)
(***************************************************************************)
\* the acquisition made for the instance of the current iteration returned
\* an error: the iteration got past its range query, and the acquisition
\* that followed has an Err result
current_acquisition_failed ==
    /\ trace # <<>>
    /\ trace[1][1] = "query_active_block_range"
    /\ trace[1][3].ok
    /\ acquisition # None
    /\ acquisition[1].result # None
    /\ ~acquisition[1].result[1].ok

\* C13: when acquiring the client for an instance has failed, the only call
\* made for that instance in this cycle is the range query of the host
\* chain: nothing is read from the external chain, signed or submitted, and
\* the cycle does not return an error: its next step reaches the next
\* instance or, after the last one, returns Ok.
C13_AcquisitionFailureSkipsInstance ==
    /\ [](current_acquisition_failed =>
            /\ Len(trace) = 1
            /\ evm = None
            /\ pc \in {"next_instance", "cycle_sleep", "cycle_start"}
            /\ pc = "next_instance" => cycle_result = None
            /\ pc # "next_instance" => cycle_result = Some(Ok("done")))
    /\ [][(current_acquisition_failed /\ pc = "next_instance") =>
            IF remaining # <<>>
            THEN instance_id' = Head(remaining) /\ visited' = visited \cup {Head(remaining)}
            ELSE cycle_result' = Some(Ok("done"))]_vars

\* C13 witness: the acquisition for instance 1 ended with RetryLimitReached,
\* only its range query was made, and instance 2 is still to come.
C13_Witness ==
    /\ current_acquisition_failed
    /\ acquisition[1].result = Some(Err("RetryLimitReached"))
    /\ instance_id = 1
    /\ remaining = <<2>>
    /\ pc = "next_instance"
    /\ Len(trace) = 1

(***************************************************************************)
(* Claims about signing and submission (Spec).                             *)
(***************************************************************************)
\* the context tag of a vote call
context_of(call) ==
    IF call = "submit_latest_ethereum_block"
    THEN "SUBMIT_LATEST_ETH_BLOCK_CONTEXT"
    ELSE "SUBMIT_ETHEREUM_EVENTS_HASH_CONTEXT"

\* the keystore's answer of a sr25519_sign entry carries no signature
sign_failed(entry) == ~entry[4].ok \/ entry[4].val = None

\* C14: every vote handed to the host chain directly follows a sr25519_sign
\* call that returned a signature over the payload (context tag of the vote
\* kind, instance id, node address, voted value) of exactly the instance,
\* address and value submitted, and that signature is the one submitted; a
\* sr25519_sign call that returned an error or no signature is the last call
\* of the cycle, which returns the signing error.
C14_SignedBeforeSubmitted ==
    /\ \A i \in calls_of(VoteCalls) :
          /\ i > 1
          /\ trace[i - 1][1] = "sr25519_sign"
          /\ trace[i - 1][3] = <<context_of(trace[i][1]), trace[i][2], trace[i][3], trace[i][4]>>
          /\ trace[i - 1][4] = Ok(Some(trace[i][5]))
          /\ trace[i][5] = <<"signature", trace[i - 1][2], trace[i - 1][3]>>
          /\ trace[i][2] = instance_id
    /\ \A i \in calls_of({"sr25519_sign"}) :
          sign_failed(trace[i]) =>
              /\ i = Len(trace)
              /\ pc \in {"cycle_sleep", "cycle_start"}
              /\ cycle_result \in {Some(Err("Failed to sign the proof")),
                                   Some(Err("Signature generation failed"))}
              /\ ~trace[i][4].ok <=> cycle_result = Some(Err("Failed to sign the proof"))

\* C14 witness: a latest-block vote was submitted after its payload was
\* signed.
C14_Witness ==
    /\ calls_of({"submit_latest_ethereum_block"}) # {}
    /\ \E i \in calls_of({"sr25519_sign"}) :
          /\ ~sign_failed(trace[i])
          /\ trace[i][3][1] = "SUBMIT_LATEST_ETH_BLOCK_CONTEXT"

(***************************************************************************)
(* Claims about the author resolution (FairSpec).                          *)
(***************************************************************************)
\* the handler is in its author loop
InAuthorLoop == pc \in {"resolve_author", "author_sleep"}

\* the calls that carry the node's address, and its position in the entry
AddressCalls == VoteCalls \cup {"query_has_author_casted_vote"}

\* C15: while no author is resolved the handler is in its author loop, has
\* reached no instance and made no call for one, and sleeps 600 s before
\* every new attempt, never staying in the sleep for ever; once an author is
\* resolved it never changes, and every signature is asked for its signing
\* key and every vote is submitted for its address.
C15_AuthorResolvedFirst ==
    /\ [](current_node_author = None =>
            /\ InAuthorLoop
            /\ trace = <<>> /\ visited = {} /\ cycle_instances = <<>>
            /\ acquisition = None /\ evm_clients = <<>>
            /\ slept \in {0, 600})
    /\ [](InAuthorLoop => current_node_author = None)
    /\ [][pc = "author_sleep" => (pc' = "resolve_author" /\ slept' = 600)]_vars
    /\ [][(pc = "resolve_author" /\ current_node_author' = None) => pc' = "author_sleep"]_vars
    /\ [][current_node_author # None => current_node_author' = current_node_author]_vars
    /\ [](\A i \in DOMAIN trace :
            /\ trace[i][1] = "sr25519_sign" =>
                   trace[i][2] = current_node_author[1].signing_key
            /\ trace[i][1] \in AddressCalls =>
                   trace[i][3] = current_node_author[1].address)
    /\ []<>(pc # "author_sleep")

\* C15 witness: the author was found after a sleep of 600 s, and a vote was
\* signed with its key and submitted for its address in the first cycle.
C15_Witness ==
    /\ slept = 600
    /\ current_node_author = Some([address |-> "addr1", signing_key |-> "key1"])
    /\ \E i \in calls_of({"sr25519_sign"}) : trace[i][2] = "key1"
    /\ \E i \in calls_of(VoteCalls) : trace[i][3] = "addr1"

(***************************************************************************)
(* ParseSpec: parse_log applied to one log.                                *)
(***************************************************************************)
\* the logs given to parse_log: emitted by the bridge or by another
\* contract, of every signature, with a zero, a non-zero or a malformed
\* payload, with and without transaction hash and block number
ParseLogs ==
    {ChainLog(address, topics, data, transaction_hash, block_number) :
        address \in {BridgeContract, OtherContract},
        topics \in {<<>>, <<Lifted>>, <<AvtLowerClaimed>>, <<UnknownSignature>>,
                    <<Erc20DirectTransfer, "from", pad_address(BridgeContract)>>},
        data \in {ZeroAddress, TokenA, BadData},
        transaction_hash \in {None} \cup {Some(h) : h \in TxHashes},
        block_number \in {None, Some(1)}}

ParseInit ==
    /\ parsed_log \in ParseLogs
    /\ parse_result = NotCalled
    /\ DiscoveryIdle /\ HandlerIdle /\ VotingIdle /\ StakeIdle /\ RevoteIdle /\ AdditionalIdle
    /\ AuthorIdle /\ FilterIdle /\ BurnIdle

ParseLog ==
    /\ parse_result = NotCalled
    /\ parse_result' = parse_log(parsed_log)
    /\ UNCHANGED <<parsed_log, outside_parse>>

ParseNext == ParseLog

ParseSpec == ParseInit /\ [][ParseNext]_vars

\* what the decoder registered for the log's signature built from the log
decoded_event_data ==
    parse_event_data(parsed_log.topics[1], parsed_log.data, parsed_log.topics).val

\* C16: the event data parse_log returns is the decoded event data, except
\* that a direct transfer decoded with the zero address as token_contract
\* carries the address of the contract that emitted the log instead; a
\* non-zero token_contract and the events of every other kind are returned
\* as decoded.
C16_ZeroAddressRepair ==
    parse_result.ok =>
        LET event_data == parse_result.val.event.event_data
        IN  IF /\ decoded_event_data.kind = "LogErc20Transfer"
               /\ decoded_event_data.token_contract = "0x0"
            THEN event_data = [kind |-> "LogErc20Transfer",
                               token_contract |-> parsed_log.address]
            ELSE event_data = decoded_event_data

\* C16 witness: a direct transfer emitted by contract 0xABCD with the zero
\* address as token contract was parsed and carries 0xABCD.
C16_Witness ==
    /\ parse_result.ok
    /\ parsed_log.address = "0xABCD"
    /\ parsed_log.topics[1] = Erc20DirectTransfer
    /\ parsed_log.data = "0x0"
    /\ parse_result.val.event.event_data.token_contract = "0xABCD"

(***************************************************************************)
(* The cross-chain-voting pallet (pallets/cross-chain-voting/src/lib.rs).  *)
(***************************************************************************)
\* the number of T2 accounts of the model
MaxAccounts == 3

\* Config::MaxLinkedAccounts, as the mock runtime sets it
MaxLinkedAccounts == 2

T1Identities == {"t1a", "t1b"}
T2Accounts == 1 .. MaxAccounts

\* the origins of a call: unsigned, or signed by an account
Origins == {None} \cup {Some(a) : a \in T2Accounts}

\* Action
Link == "Link"
Unlink == "Unlink"

CONTEXT == "avn:cross-chain-voting:v1"

ChainIds == {1, 2}

\* LinkPayload
LinkPayload(action, t1_identity_account, t2_linked_account, chain_id) ==
    [action |-> action, t1_identity_account |-> t1_identity_account,
     t2_linked_account |-> t2_linked_account, chain_id |-> chain_id]

\* the payloads submitted: every action, identity and account, on chain 1
Payloads ==
    {LinkPayload(action, t1, t2, 1) :
        action \in {Link, Unlink}, t1 \in T1Identities, t2 \in T2Accounts}

\* LinkPayload::signing_bytes: the encoding of (CONTEXT, payload)
signing_bytes(payload) == <<CONTEXT, payload>>

\* an ecdsa signature: of a T1 identity's key over a message, or malformed
ecdsa_sign(signer, message) == [recoverable |-> TRUE, signer |-> signer, message |-> message]
MalformedSignature == [recoverable |-> FALSE, signer |-> "none", message |-> <<>>]

\* the signatures submitted with a payload: malformed, or by any identity
\* over the payload or over the same payload for another chain
Signatures(payload) ==
    {MalformedSignature}
    \cup {ecdsa_sign(signer, signing_bytes([payload EXCEPT !.chain_id = c])) :
             signer \in T1Identities, c \in ChainIds}

\* the address recovered from a signature and a message: the signer's when
\* the signature is over that message, some other address when it is not
recover_ethereum_address_from_ecdsa_signature(sig, msg) ==
    IF ~sig.recoverable
    THEN Err("recovery failed")
    ELSE IF sig.message = msg
    THEN Ok(sig.signer)
    ELSE Ok("unrelated address")

\* (mutant) any signature is taken for the identity's
verify_t1_signature_unchecked(payload, sig) == Ok("verified")

verify_t1_signature(payload, sig) ==
    LET recovered ==
            recover_ethereum_address_from_ecdsa_signature(sig, signing_bytes(payload))
    IN  IF ~recovered.ok
        THEN Err("BadEcdsaSignature")
        ELSE IF recovered.val # payload.t1_identity_account
        THEN Err("SignerIdentityMismatch")
        ELSE Ok("verified")

\* ensure_signed(origin)
ensure_signed(origin) == IF origin = None THEN Err("BadOrigin") ELSE Ok(origin[1])

\* what a call leaves: its result, the two storage maps, the events deposited
Dispatched(result, accounts, identities, events) ==
    [result |-> result, LinkedAccounts |-> accounts,
     LinkedAccountToIdentity |-> identities, events |-> events]

\* (mutant) the lookup of the account's identity finds nothing
linked_identity_none(identities, t2) == None

\* LinkedAccountToIdentity::get
linked_identity(identities, t2) == identities[t2]

\* (mutant) an account linked already may be claimed by any identity
existing_link_any_identity(existing, t1) == Ok("linked already")

\* the account is linked already: to the same identity or to another one
existing_link(existing, t1) ==
    IF existing = t1 THEN Ok("linked already") ELSE Err("AccountLinkedToDifferentIdentity")

\* (mutant) the list takes any number of accounts
try_push_unbounded(vec, t2) == Ok(Append(vec, t2))

\* BoundedVec::try_push under MaxLinkedAccounts
try_push(vec, t2) ==
    IF Len(vec) >= MaxLinkedAccounts
    THEN Err("LinkedAccountsLimitReached")
    ELSE Ok(Append(vec, t2))

\* the closure of LinkedAccounts::try_mutate in link_account
push_linked_account(vec, t2) ==
    IF t2 \in Range(vec) THEN Ok(vec) ELSE try_push(vec, t2)

\* Vec::swap_remove: the last element takes the place of the removed one
swap_remove(vec, i) ==
    [j \in 1 .. (Len(vec) - 1) |-> IF j = i THEN vec[Len(vec)] ELSE vec[j]]

\* (mutant) the list keeps the account
remove_linked_account_kept(vec, t2) == vec

\* the closure of LinkedAccounts::mutate in unlink_account
remove_linked_account(vec, t2) ==
    IF t2 \in Range(vec)
    THEN swap_remove(vec, CHOOSE i \in DOMAIN vec :
                              vec[i] = t2 /\ \A j \in 1 .. (i - 1) : vec[j] # t2)
    ELSE vec

link_account(origin, payload, identity_account_sig, accounts, identities) ==
    LET failed(e) == Dispatched(Err(e), accounts, identities, <<>>)
        signer == ensure_signed(origin)
        t1 == payload.t1_identity_account
        t2 == payload.t2_linked_account
        verified == verify_t1_signature(payload, identity_account_sig)
        existing == linked_identity(identities, t2)
    IN  IF ~signer.ok THEN failed(signer.err)
        ELSE IF signer.val # t2 THEN failed("CallerMustBeLinkedAccount")
        ELSE IF payload.action # Link THEN failed("InvalidAction")
        ELSE IF ~verified.ok THEN failed(verified.err)
        ELSE IF existing # None
        THEN IF existing_link(existing[1], t1).ok
             THEN Dispatched(Ok("done"), accounts, identities, <<>>)
             ELSE failed(existing_link(existing[1], t1).err)
        ELSE LET vec == push_linked_account(accounts[t1], t2)
             IN  IF ~vec.ok
                 THEN failed(vec.err)
                 ELSE Dispatched(Ok("done"),
                                 [accounts EXCEPT ![t1] = vec.val],
                                 [identities EXCEPT ![t2] = Some(t1)],
                                 <<<<"AccountLinked", t1, t2>>>>)

unlink_account(origin, payload, accounts, identities) ==
    LET failed(e) == Dispatched(Err(e), accounts, identities, <<>>)
        signer == ensure_signed(origin)
        t1 == payload.t1_identity_account
        t2 == payload.t2_linked_account
        owner == linked_identity(identities, t2)
    IN  IF ~signer.ok THEN failed(signer.err)
        ELSE IF signer.val # t2 THEN failed("CallerMustBeLinkedAccount")
        ELSE IF payload.action # Unlink THEN failed("InvalidAction")
        ELSE IF owner = None THEN failed("AccountNotLinkedToIdentity")
        ELSE IF owner[1] # t1 THEN failed("AccountNotLinkedToIdentity")
        ELSE Dispatched(Ok("done"),
                        [accounts EXCEPT ![t1] = remove_linked_account(accounts[t1], t2)],
                        [identities EXCEPT ![t2] = None],
                        <<<<"AccountUnlinked", t1, t2>>>>)

(***************************************************************************)
(* VotingSpec: any sequence of link_account and unlink_account calls.      *)
(***************************************************************************)
VotingInit ==
    /\ LinkedAccounts = [t1 \in T1Identities |-> <<>>]
    /\ LinkedAccountToIdentity = [t2 \in T2Accounts |-> None]
    /\ last_call = None
    /\ free_balance = [t2 \in T2Accounts |-> 0]
    /\ DiscoveryIdle /\ HandlerIdle /\ ParseIdle /\ StakeIdle /\ RevoteIdle /\ AdditionalIdle
    /\ AuthorIdle /\ FilterIdle /\ BurnIdle

\* the call leaves its storage and is remembered with its arguments
Dispatch(call, origin, payload, sig, dispatched) ==
    /\ LinkedAccounts' = dispatched.LinkedAccounts
    /\ LinkedAccountToIdentity' = dispatched.LinkedAccountToIdentity
    /\ last_call' = Some([call |-> call, origin |-> origin, payload |-> payload,
                          sig |-> sig, result |-> dispatched.result,
                          events |-> dispatched.events])
    /\ UNCHANGED <<outside_voting, free_balance>>

LinkAccount ==
    \E origin \in Origins, payload \in Payloads :
        \E sig \in Signatures(payload) :
            Dispatch("link_account", origin, payload, Some(sig),
                     link_account(origin, payload, sig, LinkedAccounts,
                                  LinkedAccountToIdentity))

UnlinkAccount ==
    \E origin \in Origins, payload \in Payloads :
        Dispatch("unlink_account", origin, payload, None,
                 unlink_account(origin, payload, LinkedAccounts, LinkedAccountToIdentity))

VotingNext == LinkAccount \/ UnlinkAccount

VotingSpec == VotingInit /\ [][VotingNext]_vars

(***************************************************************************)
(* Claims about the cross-chain-voting pallet (VotingSpec).                *)
(***************************************************************************)
\* the accounts in the list of an identity
linked_to(t1) == {LinkedAccounts[t1][i] : i \in DOMAIN LinkedAccounts[t1]}

\* the call passes the checks made before the storage is read: it is signed
\* by the account of its payload, carries the action of the extrinsic, and
\* (link_account) the identity's signature over the payload
well_formed(c) ==
    /\ c.origin = Some(c.payload.t2_linked_account)
    /\ \/ /\ c.call = "link_account"
          /\ c.payload.action = "Link"
          /\ c.sig = Some([recoverable |-> TRUE,
                           signer |-> c.payload.t1_identity_account,
                           message |-> <<"avn:cross-chain-voting:v1", c.payload>>])
       \/ /\ c.call = "unlink_account"
          /\ c.payload.action = "Unlink"

\* the step is a call that left both maps as they were
maps_unchanged ==
    /\ LinkedAccounts' = LinkedAccounts
    /\ LinkedAccountToIdentity' = LinkedAccountToIdentity

\* the step is a well-formed link_account call
LinkStep == last_call' # None /\ last_call'[1].call = "link_account" /\ well_formed(last_call'[1])

\* C17: in every reachable state account a is in LinkedAccounts[t1] exactly
\* when LinkedAccountToIdentity[a] = t1, and no list holds an account twice;
\* after a successful link the pair is in both maps, after a successful
\* unlink it is in neither.
C17_MapsConsistent ==
    /\ \A t1 \in T1Identities, a \in T2Accounts :
          a \in linked_to(t1) <=> LinkedAccountToIdentity[a] = Some(t1)
    /\ \A t1 \in T1Identities :
          \A i, j \in DOMAIN LinkedAccounts[t1] :
              LinkedAccounts[t1][i] = LinkedAccounts[t1][j] => i = j
    /\ (last_call # None /\ last_call[1].result.ok) =>
          LET t1 == last_call[1].payload.t1_identity_account
              t2 == last_call[1].payload.t2_linked_account
          IN  IF last_call[1].call = "link_account"
              THEN t2 \in linked_to(t1) /\ LinkedAccountToIdentity[t2] = Some(t1)
              ELSE /\ \A t \in T1Identities : t2 \notin linked_to(t)
                   /\ LinkedAccountToIdentity[t2] = None

\* C17 witness: account 1 was unlinked from an identity that had two
\* accounts; the other account is still linked, in both maps.
C17_Witness ==
    /\ last_call # None
    /\ last_call[1].call = "unlink_account"
    /\ last_call[1].result.ok
    /\ last_call[1].payload.t2_linked_account = 1
    /\ LinkedAccounts["t1a"] = <<2>>
    /\ LinkedAccountToIdentity[2] = Some("t1a")
    /\ LinkedAccountToIdentity[1] = None

\* C18: an account is linked to at most one identity: a well-formed
\* link_account for an account linked to a different identity fails with
\* AccountLinkedToDifferentIdentity and changes neither map, and no call
\* moves a linked account to another identity in one step.
C18_OneIdentityPerAccount ==
    /\ [][LinkStep =>
            LET c == last_call'[1]
                existing == LinkedAccountToIdentity[c.payload.t2_linked_account]
            IN  (existing # None /\ existing # Some(c.payload.t1_identity_account)) =>
                    /\ c.result = Err("AccountLinkedToDifferentIdentity")
                    /\ maps_unchanged]_vars
    /\ [][\A a \in T2Accounts :
            (LinkedAccountToIdentity[a] # None /\ LinkedAccountToIdentity'[a] # None) =>
                LinkedAccountToIdentity'[a] = LinkedAccountToIdentity[a]]_vars
    /\ [](\A a \in T2Accounts :
            Cardinality({t1 \in T1Identities : a \in linked_to(t1)}) <= 1)

\* C18 witness: account 1 is linked to t1a, and a link of it to t1b has just
\* failed with AccountLinkedToDifferentIdentity.
C18_Witness ==
    /\ last_call # None
    /\ last_call[1].result = Err("AccountLinkedToDifferentIdentity")
    /\ last_call[1].payload.t1_identity_account = "t1b"
    /\ last_call[1].payload.t2_linked_account = 1
    /\ LinkedAccountToIdentity[1] = Some("t1a")
    /\ LinkedAccounts["t1a"] = <<1>>
    /\ LinkedAccounts["t1b"] = <<>>

\* C19: a well-formed link_account for a pair that is linked already
\* succeeds, deposits no event and leaves both maps exactly as they are.
C19_LinkIdempotent ==
    [][LinkStep =>
         LET c == last_call'[1]
         IN  LinkedAccountToIdentity[c.payload.t2_linked_account]
                 = Some(c.payload.t1_identity_account)
             => /\ c.result.ok
                /\ c.events = <<>>
                /\ maps_unchanged]_vars

\* C19 witness: the link of account 1 to t1a was repeated: the call
\* succeeded without an event and the list holds the account once.
C19_Witness ==
    /\ last_call # None
    /\ last_call[1].call = "link_account"
    /\ last_call[1].result.ok
    /\ last_call[1].events = <<>>
    /\ last_call[1].payload.t2_linked_account = 1
    /\ LinkedAccounts["t1a"] = <<1>>
    /\ LinkedAccountToIdentity[1] = Some("t1a")

\* C20: no identity ever has more than MaxLinkedAccounts accounts; a
\* well-formed link_account of an unlinked account to an identity whose list
\* is full fails with LinkedAccountsLimitReached and changes neither map,
\* and it succeeds whenever the list has a free slot, whether or not that
\* slot was used before.
C20_LinkedAccountsLimit ==
    /\ [](\A t1 \in T1Identities : Len(LinkedAccounts[t1]) <= MaxLinkedAccounts)
    /\ [][LinkStep =>
            LET c == last_call'[1]
                t1 == c.payload.t1_identity_account
                t2 == c.payload.t2_linked_account
            IN  LinkedAccountToIdentity[t2] = None =>
                    IF Len(LinkedAccounts[t1]) >= MaxLinkedAccounts
                    THEN c.result = Err("LinkedAccountsLimitReached") /\ maps_unchanged
                    ELSE /\ c.result.ok
                         /\ LinkedAccounts'[t1] = Append(LinkedAccounts[t1], t2)]_vars

\* C20 witness: t1a has two accounts and the link of a third one has just
\* failed with LinkedAccountsLimitReached.
C20_Witness ==
    /\ last_call # None
    /\ last_call[1].result = Err("LinkedAccountsLimitReached")
    /\ last_call[1].payload.t1_identity_account = "t1a"
    /\ Len(LinkedAccounts["t1a"]) = 2
    /\ LinkedAccountToIdentity[last_call[1].payload.t2_linked_account] = None

\* the action the extrinsic of a call expects in its payload
expected_action(call) == IF call = "link_account" THEN "Link" ELSE "Unlink"

\* the signature of the call recovers to an address, and that address is not
\* the identity of the payload
recovers_to_another_address(c) ==
    /\ c.sig[1].recoverable
    /\ ~ ( /\ c.sig[1].signer = c.payload.t1_identity_account
           /\ c.sig[1].message = <<"avn:cross-chain-voting:v1", c.payload>> )

\* the signature of the call recovers to the identity of the payload
recovers_to_identity(c) ==
    /\ c.sig[1].recoverable
    /\ c.sig[1].signer = c.payload.t1_identity_account
    /\ c.sig[1].message = <<"avn:cross-chain-voting:v1", c.payload>>

\* the call comes from payload.t2_linked_account itself
own_call(c) == c.origin = Some(c.payload.t2_linked_account)

\* a call signed by another account fails with CallerMustBeLinkedAccount, and
\* a call of the account itself with the other extrinsic's action fails with
\* InvalidAction, whatever its signature
caller_then_action(c) ==
    /\ (c.origin # None /\ ~own_call(c))
           => c.result = Err("CallerMustBeLinkedAccount")
    /\ (own_call(c) /\ c.payload.action # expected_action(c.call))
           => c.result = Err("InvalidAction")

\* a link_account that passed the caller and the action check
signature_checked(c) ==
    own_call(c) /\ c.call = "link_account" /\ c.payload.action = "Link"

\* a failing call changes neither map
FailureKeepsMaps ==
    (last_call' # None /\ ~last_call'[1].result.ok) => maps_unchanged

\* C21 as stated: a call signed by an account other than
\* payload.t2_linked_account fails with CallerMustBeLinkedAccount; a payload
\* with the other extrinsic's action fails with InvalidAction before any
\* signature check; a link_account whose signature does not recover to
\* payload.t1_identity_account fails with SignerIdentityMismatch; and a
\* failing call leaves the storage unchanged.
C21_Original ==
    /\ [](last_call # None =>
            /\ caller_then_action(last_call[1])
            /\ (signature_checked(last_call[1]) /\ ~recovers_to_identity(last_call[1]))
                   => last_call[1].result = Err("SignerIdentityMismatch"))
    /\ [][FailureKeepsMaps]_vars

\* C21 as amended: the same, but SignerIdentityMismatch is the error of a
\* signature that recovers to an address other than the identity; a signature
\* from which no address is recovered fails with BadEcdsaSignature.
C21_OnlyOwnLink ==
    /\ [](last_call # None =>
            /\ caller_then_action(last_call[1])
            /\ (signature_checked(last_call[1])
                    /\ recovers_to_another_address(last_call[1]))
                   => last_call[1].result = Err("SignerIdentityMismatch")
            /\ (signature_checked(last_call[1]) /\ ~last_call[1].sig[1].recoverable)
                   => last_call[1].result = Err("BadEcdsaSignature"))
    /\ [][FailureKeepsMaps]_vars

\* C21 witness: account 1 is linked to t1a; account 2 called unlink_account
\* for it and failed with CallerMustBeLinkedAccount, the link being kept.
C21_Witness ==
    /\ last_call # None
    /\ last_call[1].call = "unlink_account"
    /\ last_call[1].origin = Some(2)
    /\ last_call[1].payload = [action |-> "Unlink", t1_identity_account |-> "t1a",
                               t2_linked_account |-> 1, chain_id |-> 1]
    /\ last_call[1].result = Err("CallerMustBeLinkedAccount")
    /\ LinkedAccountToIdentity[1] = Some("t1a")
    /\ LinkedAccounts["t1a"] = <<1>>

(***************************************************************************)
(* BalanceSpec: get_total_linked_balance                                   *)
(* (pallets/cross-chain-voting/src/lib.rs, lines 222-230).  The accounts   *)
(* link and unlink themselves with well-formed calls, the currency changes *)
(* their free balances, and the total of an identity is read in between.   *)
(***************************************************************************)
\* the largest free balance of the model
MaxBalance == 2

Balances == 0 .. MaxBalance

\* (mutant) the fold keeps the last balance instead of adding it
fold_balances_last(balances) ==
    IF balances = <<>> THEN 0 ELSE balances[Len(balances)]

\* .fold(Zero::zero(), |a, b| a + b)
RECURSIVE fold_balances(_)
fold_balances(balances) ==
    IF balances = <<>> THEN 0
    ELSE fold_balances(SubSeq(balances, 1, Len(balances) - 1)) + balances[Len(balances)]

\* LinkedAccounts::get(t1).into_iter().map(free_balance).fold(0, +)
get_total_linked_balance(t1_identity_account, accounts, balances) ==
    LET linked == accounts[t1_identity_account]
    IN  fold_balances([i \in 1 .. Len(linked) |-> balances[linked[i]]])

BalanceInit ==
    /\ LinkedAccounts = [t1 \in T1Identities |-> <<>>]
    /\ LinkedAccountToIdentity = [t2 \in T2Accounts |-> None]
    /\ last_call = None
    /\ free_balance \in [T2Accounts -> Balances]
    /\ DiscoveryIdle /\ HandlerIdle /\ ParseIdle /\ StakeIdle /\ RevoteIdle /\ AdditionalIdle
    /\ AuthorIdle /\ FilterIdle /\ BurnIdle

\* an account links itself with the identity's signature, or unlinks itself
OwnLink ==
    \E payload \in Payloads :
        LET origin == Some(payload.t2_linked_account)
            sig == ecdsa_sign(payload.t1_identity_account, signing_bytes(payload))
            dispatched ==
                IF payload.action = Link
                THEN link_account(origin, payload, sig, LinkedAccounts,
                                  LinkedAccountToIdentity)
                ELSE unlink_account(origin, payload, LinkedAccounts,
                                    LinkedAccountToIdentity)
        IN  /\ LinkedAccounts' = dispatched.LinkedAccounts
            /\ LinkedAccountToIdentity' = dispatched.LinkedAccountToIdentity
            /\ last_call' = None
            /\ UNCHANGED <<outside_voting, free_balance>>

\* Currency: the free balance of one account changes
SetBalance ==
    \E t2 \in T2Accounts, balance \in Balances :
        /\ free_balance' = [free_balance EXCEPT ![t2] = balance]
        /\ last_call' = None
        /\ UNCHANGED <<outside_voting, LinkedAccounts, LinkedAccountToIdentity>>

\* get_total_linked_balance is read for one identity
GetTotalLinkedBalance ==
    \E t1 \in T1Identities :
        /\ last_call' = Some([call |-> "get_total_linked_balance",
                              t1_identity_account |-> t1,
                              result |-> get_total_linked_balance(
                                             t1, LinkedAccounts, free_balance)])
        /\ UNCHANGED <<outside_voting, LinkedAccounts, LinkedAccountToIdentity,
                       free_balance>>

BalanceNext == OwnLink \/ SetBalance \/ GetTotalLinkedBalance

BalanceSpec == BalanceInit /\ [][BalanceNext]_vars

\* the sum of the free balances of a set of accounts
RECURSIVE sum_of_balances(_)
sum_of_balances(accounts) ==
    IF accounts = {} THEN 0
    ELSE LET a == CHOOSE a \in accounts : TRUE
         IN  free_balance[a] + sum_of_balances(accounts \ {a})

\* the accounts whose link to t1 is recorded
linked_accounts_of(t1) == {t2 \in T2Accounts : LinkedAccountToIdentity[t2] = Some(t1)}

\* C22: get_total_linked_balance(t1) returns the sum of the free balances of
\* exactly the accounts that are linked to t1 when it is read, and 0 when no
\* account is linked to t1.
C22_TotalLinkedBalance ==
    (last_call # None /\ last_call[1].call = "get_total_linked_balance") =>
        LET t1 == last_call[1].t1_identity_account
        IN  /\ last_call[1].result = sum_of_balances(linked_accounts_of(t1))
            /\ linked_accounts_of(t1) = {} => last_call[1].result = 0

\* C22 witness: accounts 1 and 2, with free balances of 2 and 1, are linked
\* to t1a, account 3 with a free balance of 2 is not, and the total read
\* for t1a is 3.
C22_Witness ==
    /\ last_call = Some([call |-> "get_total_linked_balance",
                         t1_identity_account |-> "t1a", result |-> 3])
    /\ linked_accounts_of("t1a") = {1, 2}
    /\ free_balance = [t2 \in T2Accounts |-> IF t2 = 2 THEN 1 ELSE 2]

(***************************************************************************)
(* The stake of a node of the node-manager pallet                          *)
(* (pallets/node-manager/src/stake.rs, types.rs).  One node is registered  *)
(* at time 0 and its owner holds no other reserved funds.  Balances and    *)
(* times stay far below the widths of their types, so the checked and      *)
(* saturating operations of the source never overflow here.                *)
(***************************************************************************)
\* what the owner holds when the node is registered
MaxFunds == 4

\* the last second of the model
MaxTime == 8

\* storage values of the pallet: AutoStakeDurationSec, UnstakePeriodSec,
\* RestrictedUnstakeDurationSec (seconds), MaxUnstakePercentage (percent)
AutoStakeDurationSec == 2
UnstakePeriodSec == 2
RestrictedUnstakeDurationSec == 5
MaxUnstakePercentage == 50

\* Perbill * Balance: the nearest integer, a tie rounded down
perbill_mul(pct, balance) ==
    LET product == pct * balance
    IN  (product \div 100) + (IF 2 * (product % 100) > 100 THEN 1 ELSE 0)

\* UnstakeRestriction
Locked == [kind |-> "Locked", per_period_allowance |-> 0, expires_sec |-> 0]
Free == [kind |-> "Free", per_period_allowance |-> 0, expires_sec |-> 0]
Periodic(per_period_allowance, expires_sec) ==
    [kind |-> "Periodic", per_period_allowance |-> per_period_allowance,
     expires_sec |-> expires_sec]

StakeInfo(amount, unlocked_stake, next_unstake_time_sec, restriction) ==
    [amount |-> amount, unlocked_stake |-> unlocked_stake,
     next_unstake_time_sec |-> next_unstake_time_sec, restriction |-> restriction]

Min(a, b) == IF a <= b THEN a ELSE b

\* (mutant) the stake can be removed at any time
can_unstake_always(info, now) == TRUE

\* NodeInfo::can_unstake
can_unstake(info, now) == now >= info.auto_stake_expiry

\* (mutant) the snapshot is taken again at every call after the expiry
try_snapshot_stake_every_call(info, now, max_pct, restriction_duration) ==
    IF now < info.auto_stake_expiry THEN info
    ELSE [info EXCEPT !.stake.restriction =
              IF info.stake.amount = 0
              THEN Free
              ELSE Periodic(perbill_mul(max_pct, info.stake.amount),
                            info.auto_stake_expiry + restriction_duration)]

\* NodeInfo::try_snapshot_stake
try_snapshot_stake(info, now, max_pct, restriction_duration) ==
    IF info.stake.restriction # Locked THEN info
    ELSE IF now < info.auto_stake_expiry THEN info
    ELSE [info EXCEPT !.stake.restriction =
              IF info.stake.amount = 0
              THEN Free
              ELSE Periodic(perbill_mul(max_pct, info.stake.amount),
                            info.auto_stake_expiry + restriction_duration)]

\* (mutant) only the full periods since the boundary are counted
periods_since_full_only(next_unstake, now, unstake_period) ==
    (now - next_unstake) \div unstake_period

\* the periods that have started at now since the boundary next_unstake
periods_since(next_unstake, now, unstake_period) ==
    1 + ((now - next_unstake) \div unstake_period)

\* NodeInfo::available_to_unstake: <<available, next_unstake>>
available_to_unstake(info, now, unstake_period) ==
    IF info.stake.amount = 0 \/ unstake_period = 0
    THEN <<0, info.stake.next_unstake_time_sec>>
    ELSE IF info.stake.restriction = Locked THEN <<0, None>>
    ELSE IF info.stake.restriction = Free THEN <<info.stake.amount, None>>
    ELSE IF now >= info.stake.restriction.expires_sec THEN <<info.stake.amount, None>>
    ELSE LET next_unstake ==
                 IF info.stake.next_unstake_time_sec = None
                 THEN info.auto_stake_expiry
                 ELSE info.stake.next_unstake_time_sec[1]
         IN  IF now < next_unstake
             THEN <<Min(info.stake.unlocked_stake, info.stake.amount), Some(next_unstake)>>
             ELSE LET periods == periods_since(next_unstake, now, unstake_period)
                      newly_unlocked == info.stake.restriction.per_period_allowance * periods
                  IN  <<Min(info.stake.unlocked_stake + newly_unlocked, info.stake.amount),
                        Some(next_unstake + periods * unstake_period)>>

Balance(free, reserved) == [free |-> free, reserved |-> reserved]

\* (mutant) the stake is reserved without leaving the free balance
reserve_kept_free(balance, amount) ==
    IF balance.free < amount THEN Err("InsufficientBalance")
    ELSE Ok(Balance(balance.free, balance.reserved + amount))

\* Currency::reserve
reserve(balance, amount) ==
    IF balance.free < amount THEN Err("InsufficientBalance")
    ELSE Ok(Balance(balance.free - amount, balance.reserved + amount))

\* Pallet::update_reserves: the owner's balance after it, or the error
update_reserves(balance, amount, op) ==
    IF op = "Add"
    THEN IF reserve(balance, amount).ok
         THEN reserve(balance, amount)
         ELSE Err("InsufficientFreeBalance")
    ELSE IF balance.reserved < amount
         THEN Err("InsufficientStakedBalance")
         ELSE Ok(Balance(balance.free + amount, balance.reserved - amount))

\* what a call leaves: its result, the node and the owner's balance
Staked(result, info, balance) ==
    [result |-> result, node_info |-> info, owner_balance |-> balance]

\* Pallet::do_add_stake: NodeRegistry is written before the reserve is made
do_add_stake(info, balance, amount, now) ==
    IF amount = 0 THEN Staked(Err("ZeroAmount"), info, balance)
    ELSE LET snapshot == try_snapshot_stake(info, now, MaxUnstakePercentage,
                                            RestrictedUnstakeDurationSec)
             added == [snapshot EXCEPT !.stake.amount = @ + amount]
             reserved == update_reserves(balance, amount, "Add")
         IN  IF reserved.ok
             THEN Staked(Ok(added.stake.amount), added, reserved.val)
             ELSE Staked(reserved, added, balance)

\* the closure of do_remove_stake's try_mutate: <<info, amount, new_total>>
remove_from_stake(info, maybe_amount, now) ==
    LET snapshot == try_snapshot_stake(info, now, MaxUnstakePercentage,
                                       RestrictedUnstakeDurationSec)
        available == available_to_unstake(snapshot, now, UnstakePeriodSec)
        requested == IF maybe_amount = None THEN available[1] ELSE maybe_amount[1]
    IN  IF ~can_unstake(snapshot, now) THEN Err("AutoStakeStillActive")
        ELSE IF maybe_amount # None /\ requested = 0 THEN Err("ZeroAmount")
        ELSE IF maybe_amount # None /\ snapshot.stake.amount < requested
             THEN Err("InsufficientStakedBalance")
        ELSE IF maybe_amount # None /\ requested > available[1]
             THEN Err("NoAvailableStakeToUnstake")
        ELSE IF maybe_amount = None /\ available[1] = 0
             THEN Err("NoAvailableStakeToUnstake")
        ELSE Ok(<<[snapshot EXCEPT !.stake =
                       StakeInfo(snapshot.stake.amount - requested,
                                 available[1] - requested,
                                 available[2],
                                 snapshot.stake.restriction)],
                  requested,
                  snapshot.stake.amount - requested>>)

\* Pallet::do_remove_stake
do_remove_stake(info, balance, maybe_amount, now) ==
    LET mutated == remove_from_stake(info, maybe_amount, now)
    IN  IF ~mutated.ok THEN Staked(mutated, info, balance)
        ELSE LET unreserved == update_reserves(balance, mutated.val[2], "Remove")
             IN  IF unreserved.ok
                 THEN Staked(Ok(<<mutated.val[2], mutated.val[3]>>), mutated.val[1],
                             unreserved.val)
                 ELSE Staked(unreserved, mutated.val[1], balance)

\* a dispatched call runs in a storage layer: an error discards its writes
with_storage_layer(done, info, balance) ==
    IF done.result.ok THEN done ELSE Staked(done.result, info, balance)

\* the extrinsics, called by the owner of the node
add_stake(info, balance, amount, now) ==
    with_storage_layer(do_add_stake(info, balance, amount, now), info, balance)

remove_stake(info, balance, maybe_amount, now) ==
    with_storage_layer(do_remove_stake(info, balance, maybe_amount, now), info, balance)

Amounts == 0 .. MaxFunds

StakeInit ==
    /\ now_sec = 0
    /\ node_info = [auto_stake_expiry |-> AutoStakeDurationSec,
                    stake |-> StakeInfo(0, 0, None, Locked)]
    /\ owner_balance = Balance(MaxFunds, 0)
    /\ last_stake_call = None
    /\ DiscoveryIdle /\ HandlerIdle /\ ParseIdle /\ VotingIdle /\ RevoteIdle /\ AdditionalIdle
    /\ AuthorIdle /\ FilterIdle /\ BurnIdle

StakeCall(call, argument, done) ==
    /\ node_info' = done.node_info
    /\ owner_balance' = done.owner_balance
    /\ last_stake_call' = Some([call |-> call, argument |-> argument,
                                result |-> done.result])
    /\ UNCHANGED <<outside_stake, now_sec>>

AddStake ==
    \E amount \in Amounts :
        StakeCall("add_stake", Some(amount),
                  add_stake(node_info, owner_balance, amount, now_sec))

RemoveStake ==
    \E maybe_amount \in {None} \cup {Some(amount) : amount \in Amounts} :
        StakeCall("remove_stake", maybe_amount,
                  remove_stake(node_info, owner_balance, maybe_amount, now_sec))

\* a second passes
SetTimestamp ==
    /\ now_sec < MaxTime
    /\ now_sec' = now_sec + 1
    /\ last_stake_call' = None
    /\ UNCHANGED <<outside_stake, node_info, owner_balance>>

StakeNext == AddStake \/ RemoveStake \/ SetTimestamp

StakeSpec == StakeInit /\ [][StakeNext]_vars

\* the step is a remove_stake call
RemoveStep == last_stake_call' # None /\ last_stake_call'[1].call = "remove_stake"

\* the step is an add_stake call
AddStep == last_stake_call' # None /\ last_stake_call'[1].call = "add_stake"

\* C23: a remove_stake called while now < auto_stake_expiry fails with
\* AutoStakeStillActive, whatever amount is requested (None included), and
\* leaves the node's stake and the owner's reserved balance as they were.
C23_AutoStakeStillActive ==
    [][(RemoveStep /\ now_sec < node_info.auto_stake_expiry) =>
          /\ last_stake_call'[1].result = Err("AutoStakeStillActive")
          /\ node_info'.stake = node_info.stake
          /\ owner_balance'.reserved = owner_balance.reserved]_vars

\* C23 witness: one second before the expiry, with a stake of 4, the owner
\* asked for everything available and the call failed.
C23_Witness ==
    /\ now_sec = AutoStakeDurationSec - 1
    /\ node_info.stake.amount = 4
    /\ owner_balance.reserved = 4
    /\ last_stake_call = Some([call |-> "remove_stake", argument |-> None,
                               result |-> Err("AutoStakeStillActive")])

\* the restriction of the node is periodic and has not expired
PeriodicNow ==
    /\ node_info.stake.restriction.kind = "Periodic"
    /\ now_sec < node_info.stake.restriction.expires_sec

\* the last period boundary of the node: the expiry of its auto-stake period
\* until a withdrawal has moved it
boundary_of(info) ==
    IF info.stake.next_unstake_time_sec = None
    THEN info.auto_stake_expiry
    ELSE info.stake.next_unstake_time_sec[1]

\* the periods that have started since the last boundary: one at the boundary
\* and one at each full unstake period after it
periods_started(info, now) ==
    Cardinality({k \in 0 .. MaxTime : boundary_of(info) + k * UnstakePeriodSec <= now})

\* what can be withdrawn from a periodically restricted node at now
withdrawable(info, now) ==
    Min(info.stake.unlocked_stake
            + info.stake.restriction.per_period_allowance * periods_started(info, now),
        info.stake.amount)

\* the result of the remove_stake step
removed == last_stake_call'[1].result

\* what the remove_stake step asked for, None meaning all that can be withdrawn
requested_amount ==
    IF last_stake_call'[1].argument = None
    THEN withdrawable(node_info, now_sec)
    ELSE last_stake_call'[1].argument[1]

\* a remove_stake step on a periodically restricted node withdraws what it
\* asks for when that is not above the withdrawable amount, leaving the rest
\* of the allowance for the same second
AllowanceRule ==
    ( /\ requested_amount > 0
      /\ requested_amount <= withdrawable(node_info, now_sec) ) =>
        /\ removed = Ok(<<requested_amount, node_info.stake.amount - requested_amount>>)
        /\ node_info'.stake.amount = node_info.stake.amount - requested_amount
        /\ withdrawable(node_info', now_sec)
               = Min(withdrawable(node_info, now_sec) - requested_amount,
                     node_info'.stake.amount)

\* remove_stake(None), or remove_stake of a non-zero amount within the stake
AllowanceDecides ==
    \/ last_stake_call'[1].argument = None
    \/ /\ requested_amount > 0
       /\ requested_amount <= node_info.stake.amount

\* C24 as stated: while the restriction of a node is periodic and not expired,
\* what can be withdrawn is the carried-over allowance plus
\* per_period_allowance for each period started since the last boundary,
\* capped by the stake; withdrawals consume it; and with nothing left every
\* remove_stake fails with NoAvailableStakeToUnstake.
C24_Original ==
    [][(RemoveStep /\ PeriodicNow) =>
          /\ AllowanceRule
          /\ withdrawable(node_info, now_sec) = 0 =>
                 /\ removed = Err("NoAvailableStakeToUnstake")
                 /\ node_info' = node_info]_vars

\* C24 as amended: the same, but NoAvailableStakeToUnstake is the error of the
\* requests the allowance decides, remove_stake(None) and a non-zero amount
\* within the stake, when they ask for more than can be withdrawn; a zero
\* amount and an amount above the stake fail with their own errors.
C24_PeriodicAllowance ==
    [][(RemoveStep /\ PeriodicNow) =>
          /\ AllowanceRule
          /\ ( /\ AllowanceDecides
               /\ \/ requested_amount > withdrawable(node_info, now_sec)
                  \/ withdrawable(node_info, now_sec) = 0 ) =>
                 /\ removed = Err("NoAvailableStakeToUnstake")
                 /\ node_info' = node_info
          /\ (~AllowanceDecides) =>
                 /\ removed \in {Err("ZeroAmount"), Err("InsufficientStakedBalance")}
                 /\ node_info' = node_info]_vars

\* C24 witness: at the expiry a stake of 4 has an allowance of 2 per period;
\* 1 was withdrawn, 1 is carried over until the boundary at second 4.
C24_Witness ==
    /\ now_sec = AutoStakeDurationSec
    /\ node_info.stake = StakeInfo(3, 1, Some(4), Periodic(2, 7))
    /\ last_stake_call = Some([call |-> "remove_stake", argument |-> Some(1),
                               result |-> Ok(<<1, 3>>)])

\* C25: for a node whose stake is zero when its auto-stake period expires,
\* remove_stake(None) at the expiry fails with NoAvailableStakeToUnstake; and
\* once add_stake(S) has succeeded at that same second, remove_stake(None)
\* withdraws exactly MaxUnstakePercentage x S and leaves the rest of S staked.
C25_ZeroStakeAtExpiry ==
    [][( /\ RemoveStep
         /\ last_stake_call'[1].argument = None
         /\ now_sec = node_info.auto_stake_expiry ) =>
          LET S == node_info.stake.amount
              share == perbill_mul(MaxUnstakePercentage, S)
          IN  /\ S = 0 =>
                    last_stake_call'[1].result = Err("NoAvailableStakeToUnstake")
              /\ ( /\ share > 0
                   /\ last_stake_call = Some([call |-> "add_stake", argument |-> Some(S),
                                              result |-> Ok(S)]) ) =>
                    /\ last_stake_call'[1].result = Ok(<<share, S - share>>)
                    /\ node_info'.stake.amount + share = S]_vars

\* C26: the owner's reserved balance equals the stake of the node; a
\* successful add_stake moves exactly its amount from free to reserved, a
\* successful remove_stake moves exactly the withdrawn amount back, and a
\* failing call changes neither the stake nor the balances.
C26_ReservedIsStake ==
    /\ [](owner_balance.reserved = node_info.stake.amount)
    /\ [][(AddStep /\ last_stake_call'[1].result.ok) =>
             LET amount == last_stake_call'[1].argument[1]
             IN  /\ owner_balance' = Balance(owner_balance.free - amount,
                                             owner_balance.reserved + amount)
                 /\ node_info'.stake.amount = node_info.stake.amount + amount]_vars
    /\ [][(RemoveStep /\ last_stake_call'[1].result.ok) =>
             LET amount == last_stake_call'[1].result.val[1]
             IN  /\ owner_balance' = Balance(owner_balance.free + amount,
                                             owner_balance.reserved - amount)
                 /\ node_info'.stake.amount = node_info.stake.amount - amount]_vars
    /\ [][(last_stake_call' # None /\ ~last_stake_call'[1].result.ok) =>
             /\ node_info'.stake = node_info.stake
             /\ owner_balance' = owner_balance]_vars

\* C26 witness: with 2 staked and 2 free the owner tried to add 3 and failed
\* with InsufficientFreeBalance; stake and balances are as before.
C26_Witness ==
    /\ last_stake_call = Some([call |-> "add_stake", argument |-> Some(3),
                               result |-> Err("InsufficientFreeBalance")])
    /\ node_info.stake.amount = 2
    /\ owner_balance = Balance(2, 2)

(***************************************************************************)
(* Further claims about identify_events (DiscoverySpec).                   *)
(***************************************************************************)
\* the primary answer holds a log of the bridge contract for h whose
\* signature is a primary one that was not requested
unrequested_primary_log(h) ==
    \E i \in DOMAIN primary_response.val :
        LET log == primary_response.val[i]
        IN  /\ carries_hash(log, h)
            /\ log.address = BridgeContract
            /\ log.topics # <<>>
            /\ log.topics[1] \in all_primary_events \ event_signatures_to_find

\* the secondary answer holds a log for h whose signature is a requested
\* secondary one and whose data decodes
requested_secondary_log(h) ==
    /\ secondary_was_queried
    /\ \E j \in DOMAIN secondary_response.val :
          LET log == secondary_response.val[j]
          IN  /\ carries_hash(log, h)
              /\ log.topics # <<>>
              /\ log.topics[1] \in all_secondary_events \cap event_signatures_to_find
              /\ parse_log(log).ok

\* the primary answer holds what the primary filter asks for: logs of the
\* bridge contract with a primary signature
primary_answer_matches_filter ==
    \A i \in DOMAIN primary_response.val :
        /\ primary_response.val[i].address = BridgeContract
        /\ primary_response.val[i].topics # <<>>
        /\ primary_response.val[i].topics[1] \in all_primary_events

\* C27 as stated: when a transaction has an unrequested primary log of the
\* bridge contract and a requested secondary log, no event is returned for it.
C27_Original ==
    (DiscoveryOk /\ primary_answer_matches_filter) =>
        \A h \in TxHashes :
            (unrequested_primary_log(h) /\ requested_secondary_log(h))
                => events_of(h) = {}

\* C27 as amended: for such a transaction the event returned, if any, carries
\* the signature of the first log the primary query returned for it, never
\* that of the secondary log, and no event is returned when that first log is
\* not a requested one.
C27_SecondaryNeverReplaces ==
    (DiscoveryOk /\ primary_answer_matches_filter) =>
        \A h \in TxHashes :
            (unrequested_primary_log(h) /\ requested_secondary_log(h)) =>
                LET first == first_log_of(primary_response.val, h)
                IN  /\ \A i \in events_of(h) :
                          /\ discovery_result.val[i].event.event_id.signature
                                 = first.topics[1]
                          /\ first.topics[1] \notin all_secondary_events
                    /\ ~carries_requested_signature(first) => events_of(h) = {}

\* C27 witness: the only primary log of a transaction is an unrequested one of
\* the bridge contract, its secondary log is requested and decodes, and the
\* call returned a list without an event for the transaction.
C27_Witness ==
    /\ DiscoveryOk
    /\ primary_answer_matches_filter
    /\ \E h \in TxHashes :
          /\ unrequested_primary_log(h)
          /\ requested_secondary_log(h)
          /\ Cardinality({i \in DOMAIN primary_response.val :
                             carries_hash(primary_response.val[i], h)}) = 1
          /\ events_of(h) = {}

\* the call sent the primary query: all primary signatures, on the bridge
\* contract addresses
primary_query_issued ==
    \E i \in DOMAIN discovery_queries :
        /\ discovery_queries[i].addresses = {BridgeContract}
        /\ discovery_queries[i].topics[1] = Some(all_primary_events)

\* the call sent the secondary query: all secondary signatures, any address,
\* topics[2] one of the padded contract addresses
secondary_query_issued ==
    \E i \in DOMAIN discovery_queries :
        /\ discovery_queries[i].addresses = {}
        /\ discovery_queries[i].topics[1] = Some(all_secondary_events)
        /\ discovery_queries[i].topics[3] = Some({pad_address(BridgeContract)})

\* a secondary signature is requested
secondary_requested == event_signatures_to_find \cap all_secondary_events # {}

partitioned_events == {trace[i][3] : i \in calls_of({"create_partitions"})}

\* C29: the events handed to the partitioner, those of the additional
\* transactions followed by those of the active range, hold at most one
\* DiscoveredEvent for each transaction hash.
C29_OneEventPerTransaction ==
    \A all_events \in partitioned_events :
        \A i, j \in DOMAIN all_events :
            all_events[i].event.event_id.transaction_hash
                = all_events[j].event.event_id.transaction_hash
            => i = j

(***************************************************************************)
(* RevoteSpec: the cycles of start_eth_event_handler over one instance     *)
(* whose active range the host chain reports again in every cycle.  The    *)
(* handler keeps nothing of a cycle but its client cache; votes_handed     *)
(* counts what the host chain's submission interface has accepted.         *)
(***************************************************************************)
MaxVotes == 2

\* the submit_vote calls of a trace that the host chain accepted
accepted_votes(calls) ==
    {i \in DOMAIN calls : calls[i][1] = "submit_vote" /\ calls[i][6].ok}

\* the handler has reached the processing of instance 1 with a connected
\* client, a range being active
RevoteInit ==
    /\ DiscoveryIdle /\ ParseIdle /\ VotingIdle /\ StakeIdle /\ RevoteIdle /\ AdditionalIdle
    /\ AuthorIdle /\ FilterIdle /\ BurnIdle
    /\ pc = "process"
    /\ current_node_author = Some(Author1)
    /\ eth_node_urls = <<MalformedUrl, UrlA1>>
    /\ evm_clients = <<[url |-> UrlA1]>>
    /\ cycle_instances = <<1>>
    /\ remaining = <<>>
    /\ visited = {1}
    /\ instance_id = 1
    /\ \E e \in EndBlocks, p \in PartitionIds :
          /\ active_range = Some(ActiveRange(e, p))
          /\ trace = <<<<"query_active_block_range", 1, Ok(active_range)>>>>
    /\ evm = Some([url |-> UrlA1])
    /\ attempts = 0
    /\ retry_sleeps = <<>>
    /\ acquisition = Some([chain_id |-> 1, cached |-> FALSE,
                           result |-> Some(Ok([url |-> UrlA1]))])
    /\ last_scan = <<<<MalformedUrl, "new_http failed">>, <<UrlA1, "chain_id", 1>>>>
    /\ cycle_result = None
    /\ slept = 0

\* the finality gate, then process_events, as in ProcessActiveRange
RevoteCycle ==
    /\ pc = "process"
    /\ votes_handed < MaxVotes
    /\ \E latest_block \in BlockNumberAnswers :
          LET range == active_range[1].range
              t1 == Append(trace, <<"block_number", latest_block>>)
          IN  IF ~latest_block.ok
              THEN Proceed(Outcome(Err("Failed to get latest block number"), t1))
              ELSE IF is_evm_block_finalised(latest_block.val, as_u64(range.end_block),
                                                  as_u64(ETH_FINALITY))
              THEN \E o \in process_events(instance_id, range,
                                            active_range[1].partition_id,
                                            current_node_author[1], t1) :
                      Proceed(o)
              ELSE Proceed(Outcome(Ok("done"), t1))
    /\ votes_handed' = votes_handed + Cardinality(accepted_votes(trace'))
    /\ UNCHANGED <<outside_revote, slept, current_node_author, eth_node_urls, pool_vars,
                   cycle_instances, remaining, visited, instance_id, active_range>>

\* the cycle ends, the handler sleeps, and the next cycle comes to the same
\* instance: the host chain reports the same instances and the same active
\* range, the client is found in the cache
RevoteReturn ==
    /\ pc \in {"next_instance", "cycle_sleep"}
    /\ slept' = SLEEP_TIME
    /\ cycle_result' = None
    /\ trace' = <<<<"query_active_block_range", instance_id, Ok(active_range)>>>>
    /\ GetEvmClientForInstance(instance_chain_id(instance_id), "process")
    /\ UNCHANGED <<outside_revote, votes_handed, current_node_author, eth_node_urls,
                   evm_clients, cycle_instances, remaining, visited, instance_id,
                   active_range>>

RevoteNext == RevoteCycle \/ RevoteReturn

RevoteSpec == RevoteInit /\ [][RevoteNext]_vars

\* query_has_author_casted_vote answered false in the current cycle
has_voted_reads_false ==
    \E i \in calls_of({"query_has_author_casted_vote"}) :
        trace[i][4].ok /\ ~trace[i][4].val

\* C30 as stated: over all the cycles of an instance on one active range the
\* node hands at most one partition vote to the host chain, also when
\* has_voted still reads false in the next cycle.
C30_Original == votes_handed <= 1

\* C30: over the cycles of an instance on one active range the node hands
\* at most one partition vote in each cycle, and hands one only in a cycle
\* in which has_voted reads false.
C30_OneVotePerUnrecordedCycle ==
    [][votes_handed' # votes_handed
          => /\ votes_handed' = votes_handed + 1
             /\ has_voted_reads_false']_vars

\* a second vote for the same range has been accepted, in a cycle in which
\* has_voted still read false
C30_Witness ==
    /\ votes_handed = 2
    /\ has_voted_reads_false
    /\ accepted_votes(trace) # {}

(***************************************************************************)
(* Claims about one scan of initialise_evm (PoolSpec).                     *)
(***************************************************************************)
\* the scan entry of an endpoint that reported the chain id
reports(entry, chain_id) == Len(entry) = 3 /\ entry[3] = chain_id

\* the step is a call of initialise_evm: last_scan' is its scan
ScanStep == pc = "initialise" /\ pc' # "initialise"

\* C31: a call of initialise_evm tries the urls in list order, goes on to the
\* next url after a failed construction, a failed chain-id fetch or another
\* chain id, returns the client of the first url that reports the wanted
\* chain id without trying a later url, and fails exactly when no url of the
\* list reported the wanted chain id.
C31_ScanInOrder ==
    [][ScanStep =>
          LET wanted_chain_id == acquisition[1].chain_id
              scan == last_scan'
              found == {i \in DOMAIN scan : reports(scan[i], wanted_chain_id)}
          IN  /\ Len(scan) <= Len(eth_node_urls)
              /\ \A i \in DOMAIN scan : scan[i][1] = eth_node_urls[i]
              /\ \A i \in found : i = Len(scan)
              /\ (pc' = "process") <=> (found # {})
              /\ found # {} => evm' = Some([url |-> eth_node_urls[Len(scan)]])
              /\ found = {} => /\ Len(scan) = Len(eth_node_urls)
                               /\ attempts' = attempts + 1
                               /\ evm' = None]_vars

\* C31 witness: the first of two urls reported the wanted chain id, the scan
\* ended there and the call returned its client.
C31_Witness ==
    /\ eth_node_urls = <<UrlA1, UrlA2>>
    /\ last_scan = <<<<UrlA1, "chain_id", 1>>>>
    /\ acquisition = Some([chain_id |-> 1, cached |-> FALSE,
                           result |-> Some(Ok([url |-> UrlA1]))])
    /\ evm = Some([url |-> UrlA1])
    /\ pc = "process"

\* the chain ids the endpoints reported in a scan
reported_ids(scan) == {scan[i][3] : i \in {j \in DOMAIN scan : Len(scan[j]) = 3}}

\* the urls of the endpoints that reported the chain id in a scan
reporting_urls(scan, chain_id) ==
    {scan[i][1] : i \in {j \in DOMAIN scan : reports(scan[j], chain_id)}}

\* the step is a call of get_evm_client_for_instance
CallStep == pc \in {"pool_idle", "process", "next_instance"} /\ acquisition' # None

\* C32: after a call of initialise_evm, whether it returned a client or
\* failed, every chain id an endpoint reported in the scan is cached, with
\* the client of an endpoint that reported it when it was not cached before;
\* a later get_evm_client_for_instance for a cached id returns the cached
\* client without scanning.
C32_ReportedIdsCached ==
    /\ [][ScanStep =>
            \A id \in reported_ids(last_scan') :
                /\ id \in DOMAIN evm_clients'
                /\ id \notin DOMAIN evm_clients
                      => evm_clients'[id].url \in reporting_urls(last_scan', id)]_vars
    /\ [][CallStep =>
            LET chain_id == acquisition'[1].chain_id
            IN  chain_id \in DOMAIN evm_clients
                    => /\ acquisition'[1].cached
                       /\ last_scan' = <<>>
                       /\ pc' = "process"
                       /\ evm' = Some(evm_clients[chain_id])
                       /\ evm_clients' = evm_clients]_vars

\* C32 witness: a scan for chain 3 failed, having reached the endpoints of
\* chains 2 and 1, and both are cached.
C32_Witness ==
    /\ pc = "retry_sleep"
    /\ acquisition # None
    /\ acquisition[1].chain_id = 3
    /\ last_scan = <<<<UrlB, "chain_id", 2>>, <<UrlA1, "chain_id", 1>>>>
    /\ DOMAIN evm_clients = {1, 2}
    /\ evm_clients[2] = [url |-> UrlB]

\* C33: whatever acquisitions are made, an entry of the client cache is never
\* removed and the client cached for a chain id is never replaced, also when
\* a later endpoint reports that id or the cached endpoint stops answering.
C33_CacheOnlyGrows ==
    [][\A chain_id \in DOMAIN evm_clients :
          /\ chain_id \in DOMAIN evm_clients'
          /\ evm_clients'[chain_id] = evm_clients[chain_id]]_vars

\* C33 witness: the client of the first endpoint is cached for chain 1; in a
\* later scan that endpoint did not answer and the second endpoint reported
\* chain 1; the cached client is still the first.
C33_Witness ==
    /\ eth_node_urls = <<UrlA1, UrlA2>>
    /\ last_scan = <<<<UrlA1, "chain_id failed">>, <<UrlA2, "chain_id", 1>>>>
    /\ 1 \in DOMAIN evm_clients
    /\ evm_clients[1] = [url |-> UrlA1]

(***************************************************************************)
(* AdditionalSpec: identify_additional_events applied to a list of         *)
(* transaction ids.  The call is awaited twice against the same answers of *)
(* the chain, its discoveries completing in two orders.                    *)
(***************************************************************************)
TransactionLists == {<<>>, <<"h1">>, <<"h1", "h2">>, <<"h2", "h1">>}

AdditionalInit ==
    /\ DiscoveryIdle /\ HandlerIdle /\ ParseIdle /\ VotingIdle /\ StakeIdle /\ RevoteIdle
    /\ AuthorIdle /\ FilterIdle /\ BurnIdle
    /\ transactions_to_check \in TransactionLists
    /\ additional_call = None

IdentifyAdditionalEvents ==
    /\ additional_call = None
    /\ \E sigs \in {{Lifted}, {Lifted, Erc20DirectTransfer}} :
          \E run \in additional_runs({BridgeContract}, sigs, transactions_to_check, <<>>) :
              \E completion_order, other_order \in CompletionOrders(Len(run.results)) :
                  additional_call' =
                      Some([event_signatures_to_find |-> sigs,
                            blocks |-> run.blocks,
                            results |-> run.results,
                            completion_order |-> completion_order,
                            other_order |-> other_order,
                            result |-> awaited(run, completion_order).result,
                            other_result |-> awaited(run, other_order).result,
                            trace |-> run.trace])
    /\ UNCHANGED <<outside_additional, transactions_to_check>>

AdditionalNext == IdentifyAdditionalEvents

AdditionalSpec == AdditionalInit /\ [][AdditionalNext]_vars

(***************************************************************************)
(* Claims about identify_additional_events (AdditionalSpec).               *)
(***************************************************************************)
\* the call's get_receipt and primary get_logs requests, in the order made
receipt_calls == SelectSeq(additional_call[1].trace, LAMBDA e : e[1] = "get_receipt")
discovery_calls ==
    SelectSeq(additional_call[1].trace,
              LAMBDA e : e[1] = "get_logs" /\ e[2].addresses # {})

\* the receipts that were found and carry a block number
receipts_with_block ==
    SelectSeq(receipt_calls,
              LAMBDA e : e[3].ok /\ e[3].val # None /\ e[3].val[1].block_number # None)

\* the u64 block number of such a receipt
block_of(receipt_call) == receipt_call[3].val[1].block_number[1]

\* the discovery made for a receipt is on the range [b, b] of its block b,
\* b taken as the u32 the range holds (truncated) or as the u64 it is
single_block_range(filter, b, truncated) ==
    IF truncated
    THEN filter.from_block = as_u32(b) /\ filter.to_block = as_u32(b)
    ELSE as_u64(filter.from_block) = b /\ as_u64(filter.to_block) = b

\* what the lookup does with its receipts and its discoveries
additional_lookup(truncated) ==
    additional_call # None =>
        LET c == additional_call[1]
            failed == {i \in DOMAIN c.results : ~c.results[i].ok}
        IN  /\ Len(receipt_calls) = Len(transactions_to_check)
            /\ \A i \in DOMAIN receipt_calls :
                  receipt_calls[i][2] = transactions_to_check[i]
            /\ IF \E i \in DOMAIN receipt_calls : ~receipt_calls[i][3].ok
               THEN /\ c.result = Err("ErrorGettingEventLogs")
                    /\ discovery_calls = <<>>
               ELSE /\ Len(discovery_calls) = Len(receipts_with_block)
                    /\ Len(c.results) = Len(receipts_with_block)
                    /\ \A i \in DOMAIN discovery_calls :
                          single_block_range(discovery_calls[i][2],
                                             block_of(receipts_with_block[i]), truncated)
                    /\ IF failed = {}
                       THEN /\ c.result.ok
                            /\ c.result.val
                                   = flatten([i \in DOMAIN c.results |-> c.results[i].val])
                       ELSE \E i \in failed : c.result = c.results[i]

\* C34: the discoveries are on [b, b] for exactly the blocks b of the
\* receipts found; a missing receipt or block number brings no range and no
\* error; a failed receipt fetch gives ErrorGettingEventLogs; a failed
\* discovery gives its error.
C34_AdditionalLookup == additional_lookup(FALSE)

\* the same with each block number cast to u32, as the code does
LookupOnLowBits == additional_lookup(TRUE)

\* the events of a result, as a set
event_set(result) == {result.val[i] : i \in DOMAIN result.val}

C36_VoteCarriesChainHead ==
    \A i \in calls_of({"submit_latest_ethereum_block"}) :
        \E j \in calls_of({"block_number"}), k \in calls_of({"sr25519_sign"}) :
            /\ j < k /\ k < i
            /\ trace[j][2].ok
            /\ as_u64(trace[i][4]) = trace[j][2].val
            /\ as_u64(trace[k][3][4]) = trace[j][2].val

(***************************************************************************)
(* AuthorSpec: find_current_node_author applied to what the author query   *)
(* answered and to the keys of the keystore.                               *)
(***************************************************************************)
MaxAuthors == 2

\* a third author, registered with the signing key of the first
Author3 == [address |-> "addr3", signing_key |-> "key1"]

\* the lists of distinct elements of a set, up to a length
DistinctLists(S, n) ==
    UNION {{l \in [1 .. k -> S] : \A i, j \in 1 .. k : l[i] = l[j] => i = j} : k \in 0 .. n}

AuthorInit ==
    /\ DiscoveryIdle /\ HandlerIdle /\ ParseIdle /\ VotingIdle /\ StakeIdle /\ RevoteIdle
    /\ AdditionalIdle /\ FilterIdle /\ BurnIdle
    /\ authors_answer \in
          {Err("rpc")} \cup {Ok(l) : l \in DistinctLists({Author1, Author2, Author3},
                                                         MaxAuthors)}
    /\ keystore_keys \in DistinctLists({"key1", "key2", "key3"}, 2)
    /\ author_search = None

FindCurrentNodeAuthor ==
    /\ author_search = None
    /\ author_search' = Some(find_current_node_author(authors_answer, keystore_keys))
    /\ UNCHANGED <<outside_author, authors_answer, keystore_keys>>

AuthorSpec == AuthorInit /\ [][FindCurrentNodeAuthor]_vars

\* the positions of the author set whose signing key is a key of the keystore
own_authors ==
    {i \in DOMAIN authors_answer.val :
        \E k \in DOMAIN keystore_keys : keystore_keys[k] = authors_answer.val[i].signing_key}

\* C37: find_current_node_author returns an author exactly when the author
\* query succeeded and some pair of the author set has its signing key in the
\* keystore; the author is the first such pair, with the address of the pair
\* as node address.
C37_FirstOwnAuthor ==
    author_search # None =>
        LET found == author_search[1]
        IN  /\ found # None <=> (authors_answer.ok /\ own_authors # {})
            /\ found # None =>
                  LET first == CHOOSE i \in own_authors : \A j \in own_authors : i <= j
                  IN  /\ found[1].address = authors_answer.val[first].address
                      /\ found[1].signing_key = authors_answer.val[first].signing_key

\* C37 witness: two authors are registered with key1, addr3 before addr1, the
\* keystore holds key2 and key1, and the node is addr3.
C37_Witness ==
    /\ authors_answer = Ok(<<Author3, Author1>>)
    /\ keystore_keys = <<"key2", "key1">>
    /\ author_search = Some(Some(Author3))

(***************************************************************************)
(* Claims about the unstake restriction of a node (StakeSpec).             *)
(***************************************************************************)
\* the step is an add_stake or a remove_stake call
StakeStep == last_stake_call' # None

MaxBatch == 2

Extrinsics == {"xt1", "xt2", "xt3"}

\* FilterResult: Allowed, and Banned for every other variant
FilterResults == {"Allowed", "Banned"}

\* FilterResult::is_banned
is_banned(result) == result # "Allowed"

\* PoolError::InvalidTransaction(InvalidTransaction::Call)
InvalidTransactionCall == "InvalidTransaction::Call"

\* (mutant) no extrinsic is refused
check_allowed_always(filter, xt) == Ok("unit")

\* FilteredPool::check_allowed
check_allowed(filter, xt) ==
    IF is_banned(filter[xt]) THEN Err(InvalidTransactionCall) ELSE Ok("unit")

\* the hash the inner pool gives an extrinsic it takes
tx_hash(xt) == <<"hash", xt>>

\* what the inner pool can say about one extrinsic
InnerResults(xt) == {Ok(tx_hash(xt)), Err("AlreadyImported")}

\* the inner pool's submit_at: the call fails, or it answers extrinsic by
\* extrinsic, or (a pool that breaks its contract) it leaves the last one out
inner_submit_at(pool, xts) ==
    {Err("InnerPoolError"), Ok([k \in DOMAIN xts |-> pool[xts[k]]])}
        \cup (IF xts = <<>> THEN {}
              ELSE {Ok([k \in 1 .. Len(xts) - 1 |-> pool[xts[k]]])})

\* submit_at, the first loop: the positions of the allowed extrinsics
allowed_indices(filter, xts) ==
    SelectSeq([i \in DOMAIN xts |-> i], LAMBDA i : check_allowed(filter, xts[i]).ok)

\* submit_at, the first loop: the allowed extrinsics
allowed_xts(filter, xts) ==
    LET indices == allowed_indices(filter, xts)
    IN  [k \in DOMAIN indices |-> xts[indices[k]]]

\* submit_at, the first loop: the results, None where the inner pool is to answer
filtered_results(filter, xts) ==
    [i \in DOMAIN xts |->
        IF check_allowed(filter, xts[i]).ok THEN None
        ELSE Some(Err(check_allowed(filter, xts[i]).err))]

\* (mutant) the inner results fill the first positions
zip_results_front(results, inner_results, indices) ==
    [i \in DOMAIN results |->
        IF i \in DOMAIN indices THEN Some(inner_results[i]) ELSE results[i]]

\* submit_at: for (result, index) in inner_results.zip(allowed_indices)
zip_results(results, inner_results, indices) ==
    [i \in DOMAIN results |->
        IF \E k \in DOMAIN indices : indices[k] = i
        THEN Some(inner_results[CHOOSE k \in DOMAIN indices : indices[k] = i])
        ELSE results[i]]

\* submit_at: final_result, Unactionable when a position has no result
final_result(results) ==
    IF \E i \in DOMAIN results : results[i] = None
    THEN Err("Unactionable")
    ELSE Ok([i \in DOMAIN results |-> results[i][1]])

\* an inner pool call: the method, the extrinsics it was given, its answer
InnerCall(method, xts, answer) == [method |-> method, xts |-> xts, answer |-> answer]

\* FilteredPool::submit_at, given the answer of the inner pool: the calls it
\* made to the inner pool and what it returned
submit_at(filter, xts, inner_answer) ==
    LET results == filtered_results(filter, xts)
        indices == allowed_indices(filter, xts)
        handed == <<InnerCall("submit_at", allowed_xts(filter, xts), inner_answer)>>
    IN  IF allowed_xts(filter, xts) = <<>>
        THEN [handed |-> <<>>, result |-> final_result(results)]
        ELSE IF ~inner_answer.ok
        THEN [handed |-> handed, result |-> inner_answer]
        ELSE IF Len(inner_answer.val) # Len(indices)
        THEN [handed |-> handed, result |-> Err("Unactionable")]
        ELSE [handed |-> handed,
              result |-> final_result(zip_results(results, inner_answer.val, indices))]

\* FilteredPool::submit_one, submit_and_watch and submit_local
submit_single(filter, pool, method, xt) ==
    IF ~check_allowed(filter, xt).ok
    THEN [handed |-> <<>>, result |-> Err(check_allowed(filter, xt).err)]
    ELSE [handed |-> <<InnerCall(method, <<xt>>, pool[xt])>>, result |-> pool[xt]]

Batches == UNION {[1 .. n -> Extrinsics] : n \in 0 .. MaxBatch}

Submission(method, xts, outcome) ==
    Some([method |-> method, xts |-> xts, handed |-> outcome.handed,
          result |-> outcome.result])

FilterInit ==
    /\ DiscoveryIdle /\ HandlerIdle /\ ParseIdle /\ VotingIdle /\ StakeIdle /\ RevoteIdle
    /\ AdditionalIdle /\ AuthorIdle /\ BurnIdle
    /\ pool_filter \in [Extrinsics -> FilterResults]
    /\ inner_pool \in {f \in [Extrinsics -> UNION {InnerResults(xt) : xt \in Extrinsics}] :
                         \A xt \in Extrinsics : f[xt] \in InnerResults(xt)}
    /\ pool_call = None

SubmitAt ==
    \E xts \in Batches :
        \E inner_answer \in inner_submit_at(inner_pool, allowed_xts(pool_filter, xts)) :
            /\ pool_call' = Submission("submit_at", xts,
                                     submit_at(pool_filter, xts, inner_answer))
            /\ UNCHANGED <<outside_filter, pool_filter, inner_pool>>

SubmitSingle(method) ==
    \E xt \in Extrinsics :
        /\ pool_call' = Submission(method, <<xt>>,
                                 submit_single(pool_filter, inner_pool, method, xt))
        /\ UNCHANGED <<outside_filter, pool_filter, inner_pool>>

SubmitOne == SubmitSingle("submit_one")

SubmitAndWatch == SubmitSingle("submit_and_watch")

SubmitLocal == SubmitSingle("submit_local")

FilterNext == SubmitAt \/ SubmitOne \/ SubmitAndWatch \/ SubmitLocal

FilterSpec == FilterInit /\ [][FilterNext]_vars

\* the last call was a submit_at
batch_submitted == pool_call # None /\ pool_call[1].method = "submit_at"

\* the result of position i is the filter's refusal when the extrinsic is
\* banned and the inner pool's result for that extrinsic when it is not
positions_answered(call) ==
    /\ call.result.ok
    /\ Len(call.result.val) = Len(call.xts)
    /\ \A i \in DOMAIN call.xts :
          call.result.val[i] =
              IF is_banned(pool_filter[call.xts[i]])
              THEN Err(InvalidTransactionCall)
              ELSE inner_pool[call.xts[i]]

\* no call handed a banned extrinsic to the inner pool, and a batch of banned
\* extrinsics made no inner call
banned_kept_out(call) ==
    /\ \A k \in DOMAIN call.handed :
          \A j \in DOMAIN call.handed[k].xts :
              ~is_banned(pool_filter[call.handed[k].xts[j]])
    /\ (\A i \in DOMAIN call.xts : is_banned(pool_filter[call.xts[i]]))
          => call.handed = <<>>

\* C39 as stated: every submit_at returns one result per submitted extrinsic,
\* in input order, InvalidTransaction::Call for a banned one and the inner
\* pool's result for the others; no submission hands a banned extrinsic to the
\* inner pool; a batch of banned extrinsics makes no inner call.
C39_Original ==
    pool_call # None =>
        /\ batch_submitted => positions_answered(pool_call[1])
        /\ banned_kept_out(pool_call[1])

\* C39: a submit_at whose inner call, when one is made, succeeds with one
\* result per allowed extrinsic returns one result per submitted extrinsic, in
\* input order: InvalidTransaction::Call where the extrinsic is banned, the
\* inner pool's result for the extrinsic elsewhere; when the inner call fails
\* its error is the result of submit_at, and when it answers with another
\* number of results the result is Unactionable; no submission hands a banned
\* extrinsic to the inner pool, and a batch of banned extrinsics makes no
\* inner call.
C39_FilteredSubmission ==
    pool_call # None =>
        LET call == pool_call[1]
        IN  /\ batch_submitted =>
                  IF call.handed = <<>> THEN positions_answered(call)
                  ELSE IF ~call.handed[1].answer.ok
                  THEN call.result = call.handed[1].answer
                  ELSE IF Len(call.handed[1].answer.val) # Len(call.handed[1].xts)
                  THEN call.result = Err("Unactionable")
                  ELSE positions_answered(call)
            /\ banned_kept_out(call)

\* C39 witness: the batch (xt1 banned, xt2 allowed) handed xt2 alone to the
\* inner pool and came back with the refusal first and the inner result second.
C39_Witness ==
    /\ pool_call # None
    /\ pool_call[1].method = "submit_at"
    /\ pool_call[1].xts = <<"xt1", "xt2">>
    /\ is_banned(pool_filter["xt1"]) /\ ~is_banned(pool_filter["xt2"])
    /\ pool_call[1].handed
           = <<InnerCall("submit_at", <<"xt2">>, Ok(<<inner_pool["xt2"]>>))>>
    /\ pool_call[1].result = Ok(<<Err(InvalidTransactionCall), inner_pool["xt2"]>>)

(***************************************************************************)
(* Token-manager pallet (pallets/token-manager/src/burn.rs): a burn        *)
(* request reserves the amount and publishes it to the bridge.  One        *)
(* burner; the amounts are u128 like BalanceOf of the runtime.             *)
(***************************************************************************)
\* the transactions the bridge accepts at most
MaxBurns == 2

TxIds == 1 .. MaxBurns

Burner == "burner"

\* Currency::unreserve: up to amount goes from reserved back to free
unreserve(balance, amount) ==
    LET actual == IF balance.reserved < amount THEN balance.reserved ELSE amount
    IN  Balance(balance.free + actual, balance.reserved - actual)

\* let amount_u128: u128 = amount.try_into(): the balance of the runtime is
\* a u128 itself (test_burn_tokens.rs gives burn_funds a u128), so every
\* amount converts
try_into_u128(amount) ==
    IF amount \in Nat THEN Ok(amount) ELSE Err("AmountOverflow")

\* BridgeInterface::publish: the bridge takes the request under the next
\* transaction id, or refuses it
publish_answers(taken) ==
    {Err("bridge")} \cup (IF taken < MaxBurns THEN {Ok(taken + 1)} ELSE {})

\* what a call leaves: its result, the balance, the storage, the calls it made
BurnOutcome(result, balance, pending, calls) ==
    [result |-> result, balance |-> balance, pending |-> pending, calls |-> calls]

\* (mutant) the reservation of a refused request is kept
publish_burn_tokens_on_t1_kept(balance, pending, burner, amount, bridge_answer) ==
    LET held == reserve(balance, amount)
    IN  IF ~held.ok
        THEN BurnOutcome(Err("ErrorLockingTokens"), balance, pending, <<"reserve">>)
        ELSE IF bridge_answer.ok
        THEN BurnOutcome(Ok(bridge_answer.val), held.val,
                         [pending EXCEPT ![bridge_answer.val] = Some(<<burner, amount>>)],
                         <<"reserve", "publish">>)
        ELSE BurnOutcome(Err("FailedToSubmitBurnRequest"), held.val, pending,
                         <<"reserve", "publish", "unreserve">>)

\* Pallet::publish_burn_tokens_on_t1, given the answer of the bridge
publish_burn_tokens_on_t1(balance, pending, burner, amount, bridge_answer) ==
    LET held == reserve(balance, amount)
    IN  IF ~held.ok
        THEN BurnOutcome(Err("ErrorLockingTokens"), balance, pending, <<"reserve">>)
        ELSE IF ~try_into_u128(amount).ok
        THEN BurnOutcome(Err("AmountOverflow"), held.val, pending, <<"reserve">>)
        ELSE IF bridge_answer.ok
        THEN BurnOutcome(Ok(bridge_answer.val), held.val,
                         [pending EXCEPT ![bridge_answer.val] = Some(<<burner, amount>>)],
                         <<"reserve", "publish">>)
        ELSE BurnOutcome(Err("FailedToSubmitBurnRequest"),
                         unreserve(held.val, amount), pending,
                         <<"reserve", "publish", "unreserve">>)

\* Pallet::burn_from_user_pot: the result and the event it deposits
burn_from_user_pot(outcome, burner, amount) ==
    IF outcome.result.ok
    THEN [result |-> Ok("unit"),
          events |-> <<<<"BurnRequested", burner, amount, outcome.result.val>>>>]
    ELSE [result |-> outcome.result,
          events |-> <<<<"BurnRequestFailed", burner, amount>>>>]

BurnInit ==
    /\ DiscoveryIdle /\ HandlerIdle /\ ParseIdle /\ VotingIdle /\ StakeIdle /\ RevoteIdle
    /\ AdditionalIdle /\ AuthorIdle /\ FilterIdle
    /\ burner_balance \in {Balance(free, held) : free \in 0 .. MaxFunds, held \in 0 .. 1}
    /\ PendingBurnSubmission = [tx_id \in TxIds |-> None]
    /\ published = 0
    /\ last_burn_call = None

\* a burn request of the burner, for an amount that is not zero
BurnFromUserPot ==
    \E amount \in 1 .. MaxFunds :
        \E bridge_answer \in publish_answers(published) :
            LET outcome == publish_burn_tokens_on_t1(burner_balance, PendingBurnSubmission,
                                                     Burner, amount, bridge_answer)
                reached == "publish" \in Range(outcome.calls)
                call == burn_from_user_pot(outcome, Burner, amount)
            IN  /\ burner_balance' = outcome.balance
                /\ PendingBurnSubmission' = outcome.pending
                /\ published' = IF reached /\ bridge_answer.ok THEN bridge_answer.val
                                ELSE published
                /\ last_burn_call' =
                       Some([amount |-> amount,
                             bridge_answer |-> IF reached THEN Some(bridge_answer) ELSE None,
                             published |-> outcome.result,
                             calls |-> outcome.calls,
                             result |-> call.result,
                             events |-> call.events])
                /\ UNCHANGED outside_burn

BurnSpec == BurnInit /\ [][BurnFromUserPot]_vars

\* C40: publish_burn_tokens_on_t1 reserves the amount before it publishes to
\* the bridge; when the publish succeeds PendingBurnSubmission[tx_id] is
\* (burner, amount) and the amount stays reserved (free less by amount,
\* reserved more by amount); when the publish fails the balances are as before
\* the call, the storage has no new entry and the error is
\* FailedToSubmitBurnRequest; when the reserve fails nothing changes and the
\* bridge is not asked.
C40_BurnReservation ==
    [][last_burn_call' # last_burn_call =>
          LET call == last_burn_call'[1]
          IN  /\ call.calls[1] = "reserve"
              /\ burner_balance.free < call.amount =>
                    /\ call.calls = <<"reserve">>
                    /\ ~call.published.ok
                    /\ burner_balance' = burner_balance
                    /\ PendingBurnSubmission' = PendingBurnSubmission
              /\ burner_balance.free >= call.amount =>
                    /\ call.bridge_answer # None
                    /\ IF call.bridge_answer[1].ok
                       THEN /\ call.published = Ok(call.bridge_answer[1].val)
                            /\ PendingBurnSubmission' =
                                   [PendingBurnSubmission
                                        EXCEPT ![call.bridge_answer[1].val] =
                                                   Some(<<Burner, call.amount>>)]
                            /\ burner_balance'.free = burner_balance.free - call.amount
                            /\ burner_balance'.reserved
                                   = burner_balance.reserved + call.amount
                       ELSE /\ call.published = Err("FailedToSubmitBurnRequest")
                            /\ PendingBurnSubmission' = PendingBurnSubmission
                            /\ burner_balance' = burner_balance]_vars

\* C40 witness: after a request of 2 that the bridge took as transaction 1, a
\* request of 1 was refused by the bridge: the first amount is still reserved,
\* the second is free again and only transaction 1 is pending.
C40_Witness ==
    /\ last_burn_call # None
    /\ last_burn_call[1].amount = 1
    /\ last_burn_call[1].calls = <<"reserve", "publish", "unreserve">>
    /\ last_burn_call[1].published = Err("FailedToSubmitBurnRequest")
    /\ burner_balance = Balance(2, 2)
    /\ PendingBurnSubmission[1] = Some(<<Burner, 2>>)
    /\ PendingBurnSubmission[2] = None

====
